---------------------------- MODULE Spec2Model ----------------------------
(***************************************************************************)
(* A model of streamlitchat's ChatInterface (chat_interface.py): the       *)
(* response cache, the sliding-window rate limiter, the request queue and  *)
(* process_batch, and the direct send_message path.                        *)
(*                                                                         *)
(* A text (a Python str) is a sequence of one-character strings.  An       *)
(* Optional[str] is a sequence of length at most one: <<>> is None and     *)
(* <<s>> is the str s.  Time (time.time()) is a natural number of seconds. *)
(* Coroutines are interleaved only at their awaits: every action is the    *)
(* code that runs between two suspension points.                           *)
(***************************************************************************)
EXTENDS Integers, Sequences, FiniteSets, TLC

(***************************************************************************)
(* Bounds of the model.  The configuration attributes set by __init__      *)
(* (cache_size 1000, requests_per_minute 60, request_window 60,            *)
(* batch_size 5) are plain attributes of the instance; the model runs the  *)
(* same code with a scaled-down configuration.                             *)
(***************************************************************************)
cache_size == 2
requests_per_minute == 2
request_window == 1
batch_size == 2
MaxQueue == 1
MaxTime == 2
MaxHistory == 2
MaxCalls == 3
MaxKeyLen == 2
MaxQueued == 3
MaxChunks == 2
MaxHeld == 2
MaxSession == 32
MaxFiles == 1

\* self.batch_timeout = 1.0, and the asyncio.sleep(1) of the rate-limit wait
batch_timeout == 1
RATE_BACKOFF == 1

\* ChatUI.MESSAGES_PER_PAGE
MESSAGES_PER_PAGE == 10

\* The process_batch coroutines and the direct callers that may run on one instance.
Consumers == {1, 2}

\* Inputs: the message texts callers submit, the contexts of direct cache
\* calls, and the completions the remote API may return.
MessageTexts == { <<"m", " ", "1">>, <<" ">> }
Contexts == { <<>>, <<"c">> }
Completions == { <<>>, <<"r">> }
DirectTexts == { <<"m", " ", "1">> }
DirectCompletions == { <<"r">> }
\* validate_api_key: the prefix a key must start with and its least length
KEY_PREFIX == <<"s", "k", "-">>
MIN_KEY_LEN == 20
Pad(n) == [i \in 1..n |-> "a"]
ValidKey == KEY_PREFIX \o Pad(MIN_KEY_LEN - Len(KEY_PREFIX))
\* the keys handed to the constructor: a prefix followed by up to MaxPad letters
MaxPad == 18
KeyPrefixes == {<<>>, <<"s", "k">>, KEY_PREFIX, <<"x", "k", "-">>, <<"a", "s", "k", "-">>}
Credentials == {q \o Pad(n) : q \in KeyPrefixes, n \in 0..MaxPad}

\* Inputs of _generate_cache_key: the texts of at most MaxKeyLen characters
\* over an alphabet that holds the separator of the key format
KeyAlphabet == { ":", "a" }
KeyTexts == UNION { [1..n -> KeyAlphabet] : n \in 0..MaxKeyLen }

\* What one chunk of a stream may carry in choices[0].delta.content: None, the
\* empty string, or a piece of text
Deltas == { <<>>, << <<>> >>, << <<"r">> >>, << <<"s">> >> }

\* Values the UI may assign to the generation settings, and a history it may import
ParamValues ==
    [model_name |-> {"gpt-3.5-turbo", "gpt-4"}, temperature |-> {"0.7", "1.0"},
     top_p |-> {"0.9", "0.5"}, presence_penalty |-> {"0.0", "0.5"},
     frequency_penalty |-> {"0.0", "0.5"}]
Histories == { << [role |-> "assistant", content |-> <<"r">>] >> }

\* What st.chat_input returns (None, or the text typed), and the values the
\* page script stores in st.session_state.keyboard_trigger
PromptInputs == { <<>>, << <<>> >>, << <<"m", " ", "1">> >> }
Triggers == { "enter", "ctrl+l", "esc" }
\* the chunks of a stream the UI iterates: without content, or a piece of text
UIDeltas == { <<>>, << <<"r">> >> }

\* The message lists callers pass to import_history, and the roles and
\* contents a caller may write into a message it holds
HistoryRoles == { "user", "assistant" }
HistoryContents == { <<"m">>, <<"r">> }
HistoryMessages == { [role |-> "user", content |-> <<"m">>],
                     [role |-> "assistant", content |-> <<"r">>] }
HistoryLists == UNION { [1..n -> HistoryMessages] : n \in 0..MaxHistory }

\* The queues that at most MaxQueued calls of queue_request leave behind
QueuedTexts == UNION { [1..n -> MessageTexts] : n \in 0..MaxQueued }

VARIABLES
    messages,            \* self.messages: the conversation history
    response_cache,      \* self.response_cache: an insertion-ordered dict
    request_timestamps,  \* self.request_timestamps: deque(maxlen=requests_per_minute)
    request_queue,       \* self.request_queue: asyncio.Queue
    test_mode,           \* self.test_mode
    api_key,             \* self.api_key
    settings,            \* self.model_name, temperature, top_p, presence_penalty, frequency_penalty
    now,                 \* time.time()
    consumers,           \* the process_batch coroutines that exist
    logging,             \* whether the outbound dispatches are being logged
    pc,                  \* pc[c]: where process_batch coroutine c stands
    batch,               \* batch[c]: its local list batch
    responses,           \* responses[c]: its local list responses
    idx,                 \* idx[c]: position of the for loop in batch
    wake,                \* wake[c]: when its pending timer (wait_for / sleep) fires
    direct,              \* the direct send_message / send_message_stream call, in flight or last made
    insertOrder,         \* history: the cache keys present, by the time each was inserted
    answered,            \* history: answered[c] holds <<i, message, response, hit or miss>> per item
    dispatchLog,         \* history: when logging, the dispatches of the last request_window seconds
    lastOp,              \* history: the operation that made the last step
    ui,                  \* the ChatUI: st.session_state, self.current_page, the input being handled, the saved files
    held                 \* the message list a caller of export_history / import_history holds

vars == << messages, response_cache, request_timestamps, request_queue, test_mode,
           api_key, settings, now, consumers, logging, pc, batch, responses, idx, wake,
           direct, insertOrder, answered, dispatchLog, lastOp, ui, held >>

-----------------------------------------------------------------------------
(* Texts *)

NoneVal == <<>>
Some(s) == <<s>>

\* Python truthiness of an Optional[str]: None and "" are falsy.
Truthy(opt) == opt # NoneVal /\ opt[1] # <<>>

IsSpace(ch) == ch = " "

HasToken(s) == \E i \in DOMAIN s : ~IsSpace(s[i])

\* message.split()[-1]: the last maximal run of non-whitespace characters.
\* Python raises IndexError when there is none (HasToken is false).
RECURSIVE StripRight(_)
StripRight(s) ==
    IF s # <<>> /\ IsSpace(s[Len(s)]) THEN StripRight(SubSeq(s, 1, Len(s) - 1)) ELSE s

RECURSIVE LastRun(_)
LastRun(s) ==
    IF s = <<>> \/ IsSpace(s[Len(s)]) THEN <<>>
    ELSE Append(LastRun(SubSeq(s, 1, Len(s) - 1)), s[Len(s)])

SplitLast(s) == LastRun(StripRight(s))

TestPrefix ==
    << "T","e","s","t"," ","r","e","s","p","o","n","s","e"," ","t","o"," ",
       "M","e","s","s","a","g","e"," " >>

\* f"Test response to Message {msg_num}"
TestResponse(message) == TestPrefix \o SplitLast(message)

-----------------------------------------------------------------------------
(* Cache: a Python dict, which keeps its keys in insertion order.  It is a *)
(* sequence of [key, value] records with distinct keys.                    *)

\* _generate_cache_key: md5 of f"{context}:{message}".  The digest is taken
\* to be collision-free, so the key is the digested string itself.
generate_cache_key(message, context) == context \o <<":">> \o message

DictKeys(d) == { d[i].key : i \in DOMAIN d }

\* dict.get(key): None when absent
DictGet(d, k) ==
    IF k \in DictKeys(d)
    THEN Some(d[CHOOSE i \in DOMAIN d : d[i].key = k].value)
    ELSE NoneVal

\* d[key] = value: an existing key keeps its place, a new key goes last
DictSet(d, k, v) ==
    IF k \in DictKeys(d)
    THEN [i \in DOMAIN d |-> IF d[i].key = k THEN [key |-> k, value |-> v] ELSE d[i]]
    ELSE Append(d, [key |-> k, value |-> v])

\* Mutant: eviction pops the newest entry (popitem) instead of the oldest.
DictDelOldest_Newest(d) == SubSeq(d, 1, Len(d) - 1)

\* oldest_key = next(iter(d)); del d[oldest_key]
DictDelOldest(d) == Tail(d)

\* get_cached_response(message, context)
get_cached_response(d, message, context) ==
    DictGet(d, generate_cache_key(message, context))

\* Mutant: eviction starts only once the cache is over capacity.
CacheEvict_Late(d) == IF Len(d) > cache_size THEN DictDelOldest(d) ELSE d

\* _update_cache, its first statement: a full cache loses its oldest key
CacheEvict(d) == IF Len(d) >= cache_size THEN DictDelOldest(d) ELSE d

\* Mutant: _update_cache builds its key with the two arguments swapped.
update_cache_SwappedKey(d, message, response, context) ==
    DictSet(CacheEvict(d), generate_cache_key(context, message), response)

\* _update_cache(message, response, context)
update_cache(d, message, response, context) ==
    DictSet(CacheEvict(d), generate_cache_key(message, context), response)

-----------------------------------------------------------------------------
(* Rate limiter *)

\* Mutant: the pruning loop is missing, the window only ever grows.
PruneOld_Never(ts, t) == ts

\* Mutant: the pruning loop also removes a timestamp exactly request_window old.
PruneOld_Eager(ts, t) == SelectSeq(ts, LAMBDA x : t - x < request_window)

\* the while loop of can_make_request: popleft while the front is too old
RECURSIVE PruneOld(_, _)
PruneOld(ts, t) ==
    IF ts # <<>> /\ t - Head(ts) > request_window THEN PruneOld(Tail(ts), t) ELSE ts

\* Mutant: the limit test is off by one and lets a full window through.
WithinLimit_OffByOne(ts) == Len(ts) <= requests_per_minute

\* can_make_request's return value, on the pruned window
WithinLimit(ts) == Len(ts) < requests_per_minute

\* Mutant: request_timestamps is a plain list, the append never drops the oldest.
DequeAppend_Unbounded(ts, t) == Append(ts, t)

\* deque(maxlen=requests_per_minute).append: a full deque drops its left end
DequeAppend(ts, t) ==
    IF Len(ts) >= requests_per_minute THEN Append(Tail(ts), t) ELSE Append(ts, t)

-----------------------------------------------------------------------------
(* History variables *)

\* lastOp: the direct call that made the last step, with its arguments, what
\* it found (pre) and what it returned (res); NoOp after any other step.
Op(op, msg, ctx, resp, pre, res) ==
    [op |-> op, msg |-> msg, ctx |-> ctx, resp |-> resp, pre |-> pre, res |-> res]

\* The keys present after a put into dict d, by the time each was inserted:
\* a key the put's eviction removed leaves, and the put's key joins last when
\* the put inserts it (it was absent once the eviction was done).
InsertOrderAfter(order, d, message, context) ==
    LET left == DictKeys(CacheEvict(d))
        kept == SelectSeq(order, LAMBDA k : k \in left)
        key  == generate_cache_key(message, context)
    IN  IF key \in left THEN kept ELSE Append(kept, key)

LogAdd(log, via) ==
    IF logging THEN Append(log, [t |-> now, via |-> via, st |-> "pending"]) ELSE log

LogSettle(log, via, st) ==
    [i \in DOMAIN log |->
        IF log[i].via = via /\ log[i].st = "pending" THEN [log[i] EXCEPT !.st = st]
        ELSE log[i]]

LogPrune(log, t) == SelectSeq(log, LAMBDA e : t - e.t <= request_window)

User(text) == [role |-> "user", content |-> text]
Assistant(text) == [role |-> "assistant", content |-> text]

-----------------------------------------------------------------------------
(* Initial state: __init__ *)

Idle == [c \in Consumers |-> "idle"]
Empty == [c \in Consumers |-> <<>>]
NoAnswers == [c \in Consumers |-> {}]
Zero == [c \in Consumers |-> 0]
NoOp == Op("none", <<>>, <<>>, <<>>, <<>>, FALSE)

\* the defaults of __init__'s parameters
DefaultSettings ==
    [model_name |-> "gpt-3.5-turbo", temperature |-> "0.7", top_p |-> "0.9",
     presence_penalty |-> "0.0", frequency_penalty |-> "0.0"]

\* no direct call made yet.  call: "send" or "stream"; msg: its argument;
\* before: self.messages when it was called; sent: the keyword arguments of
\* each chat.completions.create it made; arrived: the deltas of the stream so
\* far; full_response: its local list; yielded: what the consumer was handed;
\* outcome and result: how it ended and what it returned
NoCall ==
    [pc |-> "idle", call |-> "none", msg |-> <<>>, before |-> <<>>, sent |-> <<>>,
     arrived |-> <<>>, full_response |-> <<>>, yielded |-> <<>>,
     outcome |-> "none", result |-> <<>>]

\* __init__: with test_mode false the key has passed validate_api_key
\* str.startswith
StartsWith(s, prefix) ==
    /\ Len(s) >= Len(prefix)
    /\ SubSeq(s, 1, Len(prefix)) = prefix

\* Mutant: the two format tests are joined by "and".
validate_api_key_And(key) ==
    IF key = <<>> THEN "API key cannot be empty"
    ELSE IF ~StartsWith(key, KEY_PREFIX) /\ Len(key) < MIN_KEY_LEN
         THEN "Invalid API key format"
         ELSE "True"

\* validate_api_key: "True", or the message of the ValueError it raises
validate_api_key(key) ==
    IF key = <<>> THEN "API key cannot be empty"
    ELSE IF ~StartsWith(key, KEY_PREFIX) \/ Len(key) < MIN_KEY_LEN
         THEN "Invalid API key format"
         ELSE "True"

\* __init__: "ok", or the message of the ValueError that ends the construction
Construct(key, mode) ==
    IF ~mode /\ key = <<>> THEN "API key is required unless test_mode is True"
    ELSE IF ~mode /\ validate_api_key(key) # "True" THEN validate_api_key(key)
    ELSE "ok"

\* ChatUI.__init__ and _initialize_session_state: the session state, the
\* page shown, no input being handled, nothing saved in chat_history/
NoUI ==
    [messages |-> <<>>, is_processing |-> FALSE, keyboard_trigger |-> NoneVal,
     current_page |-> 0, settings |-> DefaultSettings, pc |-> "idle", via |-> "none",
     prompt |-> <<>>, consumed |-> 0, full_response |-> <<>>, error |-> NoneVal,
     files |-> <<>>]

\* the list a caller holds: per element the dict it refers to and, when that
\* very dict is also an element of self.messages, its position there (else 0)
NoHeld == [cells |-> <<>>, origin |-> "none"]

InitInstance ==
    /\ messages = <<>>
    /\ response_cache = <<>>
    /\ request_timestamps = <<>>
    /\ request_queue = <<>>
    /\ test_mode \in BOOLEAN
    /\ api_key \in {k \in {<<>>, ValidKey} : Construct(k, test_mode) = "ok"}
    /\ settings = DefaultSettings
    /\ logging \in BOOLEAN
    /\ consumers \in {{1}, Consumers}
    /\ now = 0
    /\ pc = Idle
    /\ batch = Empty
    /\ responses = Empty
    /\ idx = Zero
    /\ wake = Zero
    /\ direct = NoCall
    /\ insertOrder = <<>>
    /\ answered = NoAnswers
    /\ dispatchLog = <<>>
    /\ lastOp = NoOp
    /\ ui = NoUI
    /\ held = NoHeld

\* one process_batch consumer at a time, in test mode or with a valid key
Init ==
    /\ InitInstance
    /\ api_key = (IF test_mode THEN <<>> ELSE ValidKey)
    /\ consumers = {1}
    /\ logging = FALSE

conf == << test_mode, api_key, consumers, logging, settings >>
batchVars == << pc, batch, responses, idx, wake, answered >>

-----------------------------------------------------------------------------
(* The clock *)

Tick ==
    /\ now < MaxTime
    /\ now' = now + 1
    /\ dispatchLog' = LogPrune(dispatchLog, now + 1)
    /\ lastOp' = NoOp
    /\ UNCHANGED << messages, response_cache, request_timestamps, request_queue,
                    conf, batchVars, direct, insertOrder, ui, held >>

-----------------------------------------------------------------------------
(* Direct calls of the cache and the rate limiter *)

\* _update_cache(message, response, context)
UpdateCache(message, response, context) ==
    /\ response_cache' = update_cache(response_cache, message, response, context)
    /\ insertOrder' = InsertOrderAfter(insertOrder, response_cache, message, context)
    /\ lastOp' = Op("put", message, context, response,
                    [len |-> Len(response_cache),
                     had |-> generate_cache_key(message, context) \in DictKeys(response_cache)],
                    FALSE)
    /\ UNCHANGED << messages, request_timestamps, request_queue, now, conf,
                    batchVars, direct, dispatchLog, ui, held >>

\* get_cached_response(message, context)
GetCachedResponse(message, context) ==
    /\ lastOp' = Op("get", message, context, <<>>, <<>>,
                    get_cached_response(response_cache, message, context))
    /\ UNCHANGED << messages, response_cache, request_timestamps, request_queue, now,
                    conf, batchVars, direct, insertOrder, dispatchLog, ui, held >>

\* can_make_request()
CanMakeRequest ==
    /\ request_timestamps' = PruneOld(request_timestamps, now)
    /\ lastOp' = Op("can_make_request", <<>>, <<>>, <<>>, request_timestamps,
                    WithinLimit(PruneOld(request_timestamps, now)))
    /\ UNCHANGED << messages, response_cache, request_queue, now, conf, batchVars,
                    direct, insertOrder, dispatchLog, ui, held >>

\* _generate_cache_key(message, context), called twice in a row: lastOp keeps
\* the arguments and the key of the call before (pre) beside those of this call
GenerateCacheKey(message, context) ==
    /\ lastOp' = Op("key", message, context, <<>>,
                    IF lastOp.op = "key"
                    THEN [any |-> TRUE, msg |-> lastOp.msg, ctx |-> lastOp.ctx, key |-> lastOp.res]
                    ELSE [any |-> FALSE, msg |-> <<>>, ctx |-> <<>>, key |-> <<>>],
                    generate_cache_key(message, context))
    /\ UNCHANGED << messages, response_cache, request_timestamps, request_queue, now,
                    conf, batchVars, direct, insertOrder, dispatchLog, ui, held >>

\* clear_history()
\* list.copy(): a new list that holds the same elements
Copy(s) == SubSeq(s, 1, Len(s))

\* the elements of a caller's list: the dicts of the list s of the instance /
\* dicts that no list of the instance holds
Shared(s) == [i \in 1..Len(s) |-> [msg |-> s[i], alias |-> i]]
Own(s) == [i \in 1..Len(s) |-> [msg |-> s[i], alias |-> 0]]
\* self.messages was rebound to another list: the caller's dicts are in it no more
Detached(h) ==
    [h EXCEPT !.cells = [i \in 1..Len(h.cells) |-> [h.cells[i] EXCEPT !.alias = 0]]]

\* Mutant: clear_history resets the response cache as well.
ClearHistory_ClearsCache ==
    /\ messages # <<>>
    /\ messages' = <<>>
    /\ response_cache' = <<>>
    /\ held' = Detached(held)
    /\ lastOp' = NoOp
    /\ UNCHANGED << request_timestamps, request_queue, now, conf,
                    batchVars, direct, insertOrder, dispatchLog, ui >>

\* clear_history on a history that holds messages (on an empty one it changes
\* nothing): self.messages is rebound to a new empty list
ClearHistory ==
    /\ messages # <<>>
    /\ messages' = <<>>
    /\ held' = Detached(held)
    /\ lastOp' = NoOp
    /\ UNCHANGED << response_cache, request_timestamps, request_queue, now, conf,
                    batchVars, direct, insertOrder, dispatchLog, ui >>

\* queue_request(message)
QueueRequest(message) ==
    /\ Len(request_queue) < MaxQueue
    /\ request_queue' = Append(request_queue, message)
    /\ lastOp' = NoOp
    /\ UNCHANGED << messages, response_cache, request_timestamps, now, conf,
                    batchVars, direct, insertOrder, dispatchLog, ui, held >>

-----------------------------------------------------------------------------
(* send_message, called directly *)

\* the keyword arguments send_message passes to chat.completions.create
SendRequest(msgs) == [model |-> settings.model_name, messages |-> msgs]

\* send_message with no key set: ValueError before anything is touched
SendValueError(message) ==
    /\ direct.pc = "idle"
    /\ api_key = <<>>
    /\ direct' = [NoCall EXCEPT !.call = "send", !.msg = message, !.before = messages,
                                !.outcome = "ValueError"]
    /\ lastOp' = NoOp
    /\ UNCHANGED << messages, response_cache, request_timestamps, request_queue, now,
                    conf, batchVars, insertOrder, dispatchLog, ui, held >>

\* Mutant: the request is built before the user message is appended.
SendStart_RequestBeforeAppend(message) ==
    /\ direct.pc = "idle"
    /\ api_key # <<>>
    /\ Len(messages) < MaxHistory
    /\ Len(dispatchLog) < MaxCalls
    /\ messages' = Append(messages, User(message))
    /\ direct' = [NoCall EXCEPT !.pc = "await", !.call = "send", !.msg = message,
                                !.before = messages,
                                !.sent = << SendRequest(messages) >>]
    /\ dispatchLog' = LogAdd(dispatchLog, 0)
    /\ lastOp' = NoOp
    /\ UNCHANGED << response_cache, request_timestamps, request_queue, now, conf,
                    batchVars, insertOrder, ui, held >>

\* send_message up to its await: the user message is appended, the request leaves
SendStart(message) ==
    /\ direct.pc = "idle"
    /\ api_key # <<>>
    /\ Len(messages) < MaxHistory
    /\ Len(dispatchLog) < MaxCalls
    /\ messages' = Append(messages, User(message))
    /\ direct' = [NoCall EXCEPT !.pc = "await", !.call = "send", !.msg = message,
                                !.before = messages,
                                !.sent = << SendRequest(Append(messages, User(message))) >>]
    /\ dispatchLog' = LogAdd(dispatchLog, 0)
    /\ lastOp' = NoOp
    /\ UNCHANGED << response_cache, request_timestamps, request_queue, now, conf,
                    batchVars, insertOrder, ui, held >>

\* the completion arrives: the assistant message is appended and returned
SendReturn(completion) ==
    /\ direct.pc = "await"
    /\ messages' = Append(messages, Assistant(completion))
    /\ direct' = [direct EXCEPT !.pc = "idle", !.outcome = "returned", !.result = completion]
    /\ dispatchLog' = LogSettle(dispatchLog, 0, "ok")
    /\ lastOp' = NoOp
    /\ UNCHANGED << response_cache, request_timestamps, request_queue, now, conf,
                    batchVars, insertOrder, ui, held >>

\* Mutant: a failed send takes its user message out of the history again.
SendFail_RollsBack ==
    /\ direct.pc = "await"
    /\ messages' = direct.before
    /\ direct' = [direct EXCEPT !.pc = "idle", !.outcome = "APIError"]
    /\ dispatchLog' = LogSettle(dispatchLog, 0, "failed")
    /\ lastOp' = NoOp
    /\ UNCHANGED << response_cache, request_timestamps, request_queue, now,
                    conf, batchVars, insertOrder, ui, held >>

\* Mutant: the except clause sends the request once more instead of raising.
SendFail_Retry ==
    /\ direct.pc = "await"
    /\ Len(direct.sent) < MaxCalls
    /\ direct' = [direct EXCEPT !.sent = Append(@, @[1])]
    /\ dispatchLog' = LogSettle(dispatchLog, 0, "failed")
    /\ lastOp' = NoOp
    /\ UNCHANGED << messages, response_cache, request_timestamps, request_queue, now,
                    conf, batchVars, insertOrder, ui, held >>

\* the remote call fails: openai.OpenAIError is logged and raised again
SendFail ==
    /\ direct.pc = "await"
    /\ direct' = [direct EXCEPT !.pc = "idle", !.outcome = "APIError"]
    /\ dispatchLog' = LogSettle(dispatchLog, 0, "failed")
    /\ lastOp' = NoOp
    /\ UNCHANGED << messages, response_cache, request_timestamps, request_queue, now,
                    conf, batchVars, insertOrder, ui, held >>

-----------------------------------------------------------------------------
(* send_message_stream, iterated by its caller *)

\* "".join(full_response)
RECURSIVE Join(_)
Join(fragments) ==
    IF fragments = <<>> THEN <<>> ELSE Head(fragments) \o Join(Tail(fragments))

\* the keyword arguments send_message_stream passes to chat.completions.create
StreamRequest(msgs) ==
    [model |-> settings.model_name, messages |-> msgs, stream |-> TRUE,
     temperature |-> settings.temperature, top_p |-> settings.top_p,
     presence_penalty |-> settings.presence_penalty,
     frequency_penalty |-> settings.frequency_penalty]

\* Mutant: the key is tested only after the user message has been appended.
StreamValueError_AfterAppend(message) ==
    /\ direct.pc = "idle"
    /\ api_key = <<>>
    /\ Len(messages) < MaxHistory
    /\ messages' = Append(messages, User(message))
    /\ direct' = [NoCall EXCEPT !.call = "stream", !.msg = message, !.before = messages,
                                !.outcome = "ValueError"]
    /\ lastOp' = NoOp
    /\ UNCHANGED << response_cache, request_timestamps, request_queue, now,
                    conf, batchVars, insertOrder, dispatchLog, ui, held >>

\* the first iteration with no key set: ValueError before anything is touched
StreamValueError(message) ==
    /\ direct.pc = "idle"
    /\ api_key = <<>>
    /\ direct' = [NoCall EXCEPT !.call = "stream", !.msg = message, !.before = messages,
                                !.outcome = "ValueError"]
    /\ lastOp' = NoOp
    /\ UNCHANGED << messages, response_cache, request_timestamps, request_queue, now,
                    conf, batchVars, insertOrder, dispatchLog, ui, held >>

\* the first iteration up to the await of create: the user message is appended
StreamStart(message) ==
    /\ direct.pc = "idle"
    /\ api_key # <<>>
    /\ Len(messages) < MaxHistory
    /\ Len(dispatchLog) < MaxCalls
    /\ messages' = Append(messages, User(message))
    /\ direct' = [NoCall EXCEPT !.pc = "open", !.call = "stream", !.msg = message,
                                !.before = messages,
                                !.sent = << StreamRequest(Append(messages, User(message))) >>]
    /\ dispatchLog' = LogAdd(dispatchLog, 0)
    /\ lastOp' = NoOp
    /\ UNCHANGED << response_cache, request_timestamps, request_queue, now, conf,
                    batchVars, insertOrder, ui, held >>

\* create returns the stream: full_response = [] and the async for begins
StreamOpen ==
    /\ direct.pc = "open"
    /\ direct' = [direct EXCEPT !.pc = "next"]
    /\ lastOp' = NoOp
    /\ UNCHANGED << messages, response_cache, request_timestamps, request_queue, now,
                    conf, batchVars, insertOrder, dispatchLog, ui, held >>

\* Mutant: the content is tested for truth, an empty string is skipped like None.
StreamChunk_SkipsEmpty(delta) ==
    /\ direct.pc \in {"next", "yield"}
    /\ Len(direct.arrived) < MaxChunks
    /\ direct' = IF Truthy(delta)
                 THEN [direct EXCEPT !.pc = "yield",
                                     !.arrived = Append(@, delta),
                                     !.full_response = Append(@, delta[1]),
                                     !.yielded = Append(@, delta[1])]
                 ELSE [direct EXCEPT !.pc = "next", !.arrived = Append(@, delta)]
    /\ lastOp' = NoOp
    /\ UNCHANGED << messages, response_cache, request_timestamps, request_queue, now,
                    conf, batchVars, insertOrder, dispatchLog, ui, held >>

\* a chunk arrives (the consumer, if it was handed a fragment, has asked for
\* the next one): content that is not None is appended and yielded
StreamChunk(delta) ==
    /\ direct.pc \in {"next", "yield"}
    /\ Len(direct.arrived) < MaxChunks
    /\ direct' = IF delta # NoneVal
                 THEN [direct EXCEPT !.pc = "yield",
                                     !.arrived = Append(@, delta),
                                     !.full_response = Append(@, delta[1]),
                                     !.yielded = Append(@, delta[1])]
                 ELSE [direct EXCEPT !.pc = "next", !.arrived = Append(@, delta)]
    /\ lastOp' = NoOp
    /\ UNCHANGED << messages, response_cache, request_timestamps, request_queue, now,
                    conf, batchVars, insertOrder, dispatchLog, ui, held >>

\* the stream is exhausted: the joined fragments become the assistant message
StreamExhaust ==
    /\ direct.pc \in {"next", "yield"}
    /\ messages' = Append(messages, Assistant(Join(direct.full_response)))
    /\ direct' = [direct EXCEPT !.pc = "idle", !.outcome = "exhausted"]
    /\ dispatchLog' = LogSettle(dispatchLog, 0, "ok")
    /\ lastOp' = NoOp
    /\ UNCHANGED << response_cache, request_timestamps, request_queue, now, conf,
                    batchVars, insertOrder, ui, held >>

\* the consumer, holding a fragment, stops iterating: the generator is closed
\* at its yield and nothing after the yield runs
StreamCancel ==
    /\ direct.pc = "yield"
    /\ direct' = [direct EXCEPT !.pc = "idle", !.outcome = "cancelled"]
    /\ dispatchLog' = LogSettle(dispatchLog, 0, "ok")
    /\ lastOp' = NoOp
    /\ UNCHANGED << messages, response_cache, request_timestamps, request_queue, now,
                    conf, batchVars, insertOrder, ui, held >>

\* create or the stream raises openai.OpenAIError: logged and raised again
\* Mutant: a failed stream puts the history back to what it was at the call.
StreamFail_RollsBack ==
    /\ direct.pc \in {"open", "next", "yield"}
    /\ messages' = direct.before
    /\ direct' = [direct EXCEPT !.pc = "idle", !.outcome = "APIError"]
    /\ dispatchLog' = LogSettle(dispatchLog, 0, "failed")
    /\ lastOp' = NoOp
    /\ UNCHANGED << response_cache, request_timestamps, request_queue, now,
                    conf, batchVars, insertOrder, ui, held >>

StreamFail ==
    /\ direct.pc \in {"open", "next", "yield"}
    /\ direct' = [direct EXCEPT !.pc = "idle", !.outcome = "APIError"]
    /\ dispatchLog' = LogSettle(dispatchLog, 0, "failed")
    /\ lastOp' = NoOp
    /\ UNCHANGED << messages, response_cache, request_timestamps, request_queue, now,
                    conf, batchVars, insertOrder, ui, held >>

-----------------------------------------------------------------------------
(* The instance's attributes, set by its owner between calls *)

\* chat_interface.temperature = temperature, and the like
SetParam(name, value) ==
    /\ settings[name] # value
    /\ settings' = [settings EXCEPT ![name] = value]
    /\ lastOp' = NoOp
    /\ UNCHANGED << messages, response_cache, request_timestamps, request_queue, now,
                    test_mode, api_key, consumers, logging, batchVars, direct,
                    insertOrder, dispatchLog, ui, held >>

\* import_history(messages)
\* Mutant: import_history extends the history by the given messages.
ImportHistory_Extend(history) ==
    /\ messages' = messages \o Copy(history)
    /\ held' = [cells |-> Own(history), origin |-> "import"]
    /\ lastOp' = Op("import", history, <<>>, <<>>, messages, <<>>)
    /\ UNCHANGED << response_cache, request_timestamps, request_queue, now, conf,
                    batchVars, direct, insertOrder, dispatchLog, ui >>

\* import_history(history): self.messages becomes a copy of the caller's list,
\* which holds the caller's dicts; the caller keeps its list
ImportHistory(history) ==
    /\ messages' = Copy(history)
    /\ held' = [cells |-> Shared(history), origin |-> "import"]
    /\ lastOp' = Op("import", history, <<>>, <<>>, messages, <<>>)
    /\ UNCHANGED << response_cache, request_timestamps, request_queue, now, conf,
                    batchVars, direct, insertOrder, dispatchLog, ui >>

\* export_history(): the caller receives a copy of self.messages, a list that
\* holds the dicts of self.messages
ExportHistory ==
    /\ held' = [cells |-> Shared(Copy(messages)), origin |-> "export"]
    /\ lastOp' = Op("export", <<>>, <<>>, <<>>, messages, Copy(messages))
    /\ UNCHANGED << messages, response_cache, request_timestamps, request_queue, now,
                    conf, batchVars, direct, insertOrder, dispatchLog, ui >>

\* Mutant: the round trip extends the history by its own copy.
RoundTrip_Extend ==
    /\ messages' = messages \o Copy(Copy(messages))
    /\ lastOp' = Op("roundtrip", <<>>, <<>>, <<>>, messages, <<>>)
    /\ UNCHANGED << response_cache, request_timestamps, request_queue, now, conf,
                    batchVars, direct, insertOrder, dispatchLog, ui, held >>

\* import_history(export_history()): the new list holds the dicts of the old
\* one, so a list exported before still shares them
RoundTrip ==
    /\ messages' = Copy(Copy(messages))
    /\ lastOp' = Op("roundtrip", <<>>, <<>>, <<>>, messages, <<>>)
    /\ UNCHANGED << response_cache, request_timestamps, request_queue, now, conf,
                    batchVars, direct, insertOrder, dispatchLog, ui, held >>

\* The caller changes the list it holds: lst.append(m), del lst[i],
\* lst[i]["content"] = text, lst[i]["role"] = role.  A dict that is also an
\* element of self.messages is changed there too.
HeldAppend(m) ==
    /\ held.origin # "none"
    /\ Len(held.cells) < MaxHeld
    /\ held' = [held EXCEPT !.cells = Append(@, [msg |-> m, alias |-> 0])]
    /\ lastOp' = Op("mutate", <<>>, <<>>, <<>>, messages, "append")
    /\ UNCHANGED << messages, response_cache, request_timestamps, request_queue, now,
                    conf, batchVars, direct, insertOrder, dispatchLog, ui >>

HeldRemove(i) ==
    /\ held.origin # "none"
    /\ i \in DOMAIN held.cells
    /\ held' = [held EXCEPT !.cells = SubSeq(@, 1, i - 1) \o SubSeq(@, i + 1, Len(@))]
    /\ lastOp' = Op("mutate", <<>>, <<>>, <<>>, messages, "remove")
    /\ UNCHANGED << messages, response_cache, request_timestamps, request_queue, now,
                    conf, batchVars, direct, insertOrder, dispatchLog, ui >>

HeldSet(i, field, value) ==
    /\ held.origin # "none"
    /\ i \in DOMAIN held.cells
    /\ held.cells[i].msg[field] # value
    /\ held' = [held EXCEPT !.cells[i].msg[field] = value]
    /\ messages' = IF held.cells[i].alias > 0
                   THEN [messages EXCEPT ![held.cells[i].alias][field] = value]
                   ELSE messages
    /\ lastOp' = Op("mutate", <<>>, <<>>, <<>>, messages, field)
    /\ UNCHANGED << response_cache, request_timestamps, request_queue, now,
                    conf, batchVars, direct, insertOrder, dispatchLog, ui >>

-----------------------------------------------------------------------------
(* process_batch, run by coroutine c *)

\* the message the for loop stands at
Current(c) == batch[c][idx[c]]

\* Mutant: the cache-hit branch forgets to append the cached response.
HitAppend_Forgotten(resps, cached) == resps

\* responses.append(cached) on a cache hit
HitAppend(resps, cached) == Append(resps, cached)

\* responses.append(response) after a dispatch
MissAppend(resps, response) == Append(resps, response)

\* the end of one iteration of the for loop: the next message, or return responses
LoopNext(c) ==
    /\ pc' = [pc EXCEPT ![c] = IF idx[c] = Len(batch[c]) THEN "returned" ELSE "loop"]
    /\ idx' = [idx EXCEPT ![c] = IF idx[c] = Len(batch[c]) THEN @ ELSE @ + 1]

\* process_batch is called: batch = []
BatchStart(c) ==
    /\ pc[c] = "idle"
    /\ pc' = [pc EXCEPT ![c] = "drain"]
    /\ lastOp' = NoOp
    /\ UNCHANGED << messages, response_cache, request_timestamps, request_queue, now,
                    conf, batch, responses, idx, wake, answered, direct, insertOrder,
                    dispatchLog, ui, held >>

\* Mutant: the queue hands out its newest message first.
DrainGet_Lifo(c) ==
    /\ pc[c] \in {"drain", "drainwait"}
    /\ request_queue # <<>>
    /\ batch' = [batch EXCEPT ![c] = Append(@, request_queue[Len(request_queue)])]
    /\ request_queue' = SubSeq(request_queue, 1, Len(request_queue) - 1)
    /\ pc' = [pc EXCEPT ![c] = IF Len(batch[c]) + 1 >= batch_size THEN "loop" ELSE "drain"]
    /\ idx' = [idx EXCEPT ![c] = IF Len(batch[c]) + 1 >= batch_size THEN 1 ELSE @]
    /\ wake' = [wake EXCEPT ![c] = 0]
    /\ lastOp' = NoOp
    /\ UNCHANGED << messages, response_cache, request_timestamps, now, conf,
                    responses, answered, direct, insertOrder, dispatchLog, ui, held >>

\* wait_for(request_queue.get()) yields a message; the while loop ends when
\* the batch is full
DrainGet(c) ==
    /\ pc[c] \in {"drain", "drainwait"}
    /\ request_queue # <<>>
    /\ batch' = [batch EXCEPT ![c] = Append(@, Head(request_queue))]
    /\ request_queue' = Tail(request_queue)
    /\ pc' = [pc EXCEPT ![c] = IF Len(batch[c]) + 1 >= batch_size THEN "loop" ELSE "drain"]
    /\ idx' = [idx EXCEPT ![c] = IF Len(batch[c]) + 1 >= batch_size THEN 1 ELSE @]
    /\ wake' = [wake EXCEPT ![c] = 0]
    /\ lastOp' = NoOp
    /\ UNCHANGED << messages, response_cache, request_timestamps, now, conf,
                    responses, answered, direct, insertOrder, dispatchLog, ui, held >>

\* the queue is empty: wait_for suspends until a message or the timeout
DrainWait(c) ==
    /\ pc[c] = "drain"
    /\ request_queue = <<>>
    /\ pc' = [pc EXCEPT ![c] = "drainwait"]
    /\ wake' = [wake EXCEPT ![c] = now + batch_timeout]
    /\ lastOp' = NoOp
    /\ UNCHANGED << messages, response_cache, request_timestamps, request_queue, now,
                    conf, batch, responses, idx, answered, direct, insertOrder,
                    dispatchLog, ui, held >>

\* Mutant: the TimeoutError is swallowed (continue) and the drain loop goes on.
DrainTimeout_Continue(c) ==
    /\ pc[c] = "drainwait"
    /\ request_queue = <<>>
    /\ now >= wake[c]
    /\ pc' = [pc EXCEPT ![c] = "drain"]
    /\ idx' = idx
    /\ wake' = [wake EXCEPT ![c] = 0]
    /\ lastOp' = NoOp
    /\ UNCHANGED << messages, response_cache, request_timestamps, request_queue, now,
                    conf, batch, responses, answered, direct, insertOrder, dispatchLog, ui, held >>

\* asyncio.TimeoutError: break; an empty batch returns []
DrainTimeout(c) ==
    /\ pc[c] = "drainwait"
    /\ request_queue = <<>>
    /\ now >= wake[c]
    /\ pc' = [pc EXCEPT ![c] = IF batch[c] = <<>> THEN "returned" ELSE "loop"]
    /\ idx' = [idx EXCEPT ![c] = IF batch[c] = <<>> THEN @ ELSE 1]
    /\ wake' = [wake EXCEPT ![c] = 0]
    /\ lastOp' = NoOp
    /\ UNCHANGED << messages, response_cache, request_timestamps, request_queue, now,
                    conf, batch, responses, answered, direct, insertOrder, dispatchLog, ui, held >>

\* if cached := await self.get_cached_response(message): a truthy cached response
CacheHit(c) ==
    /\ pc[c] = "loop"
    /\ Truthy(get_cached_response(response_cache, Current(c), <<>>))
    /\ LET cached == get_cached_response(response_cache, Current(c), <<>>)[1]
       IN  /\ responses' = [responses EXCEPT ![c] = HitAppend(@, cached)]
           /\ answered' = [answered EXCEPT ![c] = @ \cup {<<idx[c], Current(c), cached, "hit">>}]
           /\ lastOp' = NoOp
    /\ LoopNext(c)
    /\ UNCHANGED << messages, response_cache, request_timestamps, request_queue, now,
                    conf, batch, wake, direct, insertOrder, dispatchLog, ui, held >>

\* Coroutine c is about to call can_make_request: after a cache miss, or when
\* its asyncio.sleep(1) is over.
AtGate(c) ==
    \/ pc[c] = "loop" /\ ~Truthy(get_cached_response(response_cache, Current(c), <<>>))
    \/ pc[c] = "sleep" /\ now >= wake[c]

\* while not self.can_make_request(): await asyncio.sleep(1)
GateBlocked(c) ==
    /\ AtGate(c)
    /\ ~WithinLimit(PruneOld(request_timestamps, now))
    /\ request_timestamps' = PruneOld(request_timestamps, now)
    /\ pc' = [pc EXCEPT ![c] = "sleep"]
    /\ wake' = [wake EXCEPT ![c] = now + RATE_BACKOFF]
    /\ lastOp' = NoOp
    /\ UNCHANGED << messages, response_cache, request_queue, now, conf, batch,
                    responses, idx, answered, direct, insertOrder, dispatchLog, ui, held >>

\* test mode, message.split()[-1] of a message with no word: IndexError, which
\* the except clause logs and raises again
DispatchIndexError(c) ==
    /\ AtGate(c)
    /\ WithinLimit(PruneOld(request_timestamps, now))
    /\ test_mode
    /\ ~HasToken(Current(c))
    /\ request_timestamps' = PruneOld(request_timestamps, now)
    /\ pc' = [pc EXCEPT ![c] = "raised"]
    /\ wake' = [wake EXCEPT ![c] = 0]
    /\ lastOp' = NoOp
    /\ UNCHANGED << messages, response_cache, request_queue, now, conf, batch,
                    responses, idx, answered, direct, insertOrder, dispatchLog, ui, held >>

\* test mode: the canned response, cached, appended and recorded in one go
DispatchTest(c) ==
    /\ AtGate(c)
    /\ WithinLimit(PruneOld(request_timestamps, now))
    /\ test_mode
    /\ HasToken(Current(c))
    /\ Len(dispatchLog) < MaxCalls
    /\ LET response == TestResponse(Current(c))
       IN  /\ response_cache' = update_cache(response_cache, Current(c), response, <<>>)
           /\ insertOrder' = InsertOrderAfter(insertOrder, response_cache, Current(c), <<>>)
           /\ responses' = [responses EXCEPT ![c] = MissAppend(@, response)]
           /\ answered' = [answered EXCEPT ![c] = @ \cup {<<idx[c], Current(c), response, "miss">>}]
           /\ lastOp' = NoOp
    /\ request_timestamps' = DequeAppend(PruneOld(request_timestamps, now), now)
    /\ dispatchLog' = LogSettle(LogAdd(dispatchLog, c), c, "ok")
    /\ wake' = [wake EXCEPT ![c] = 0]
    /\ LoopNext(c)
    /\ UNCHANGED << messages, request_queue, now, conf, batch, direct, ui, held >>

\* response = await self.send_message(message), up to its await
DispatchStart(c) ==
    /\ AtGate(c)
    /\ WithinLimit(PruneOld(request_timestamps, now))
    /\ ~test_mode
    /\ Len(messages) < MaxHistory
    /\ Len(dispatchLog) < MaxCalls
    /\ request_timestamps' = PruneOld(request_timestamps, now)
    /\ messages' = Append(messages, User(Current(c)))
    /\ dispatchLog' = LogAdd(dispatchLog, c)
    /\ pc' = [pc EXCEPT ![c] = "await"]
    /\ wake' = [wake EXCEPT ![c] = 0]
    /\ lastOp' = NoOp
    /\ UNCHANGED << response_cache, request_queue, now, conf, batch, responses, idx,
                    answered, direct, insertOrder, ui, held >>

\* send_message returns: the response is cached and appended, the dispatch recorded
DispatchReturn(c, completion) ==
    /\ pc[c] = "await"
    /\ messages' = Append(messages, Assistant(completion))
    /\ response_cache' = update_cache(response_cache, Current(c), completion, <<>>)
    /\ insertOrder' = InsertOrderAfter(insertOrder, response_cache, Current(c), <<>>)
    /\ responses' = [responses EXCEPT ![c] = MissAppend(@, completion)]
    /\ answered' = [answered EXCEPT ![c] = @ \cup {<<idx[c], Current(c), completion, "miss">>}]
    /\ request_timestamps' = DequeAppend(request_timestamps, now)
    /\ dispatchLog' = LogSettle(dispatchLog, c, "ok")
    /\ lastOp' = NoOp
    /\ LoopNext(c)
    /\ UNCHANGED << request_queue, now, conf, batch, wake, direct, ui, held >>

\* Mutant: a failed batch puts its unanswered messages back into the queue.
DispatchFail_Requeues(c) ==
    /\ pc[c] = "await"
    /\ pc' = [pc EXCEPT ![c] = "raised"]
    /\ request_queue' = request_queue \o SubSeq(batch[c], idx[c], Len(batch[c]))
    /\ dispatchLog' = LogSettle(dispatchLog, c, "failed")
    /\ lastOp' = NoOp
    /\ UNCHANGED << messages, response_cache, request_timestamps, now,
                    conf, batch, responses, idx, wake, answered, direct, insertOrder, ui, held >>

\* Mutant: the except clause swallows the error and the loop goes on.
DispatchFail_Swallowed(c) ==
    /\ pc[c] = "await"
    /\ LoopNext(c)
    /\ dispatchLog' = LogSettle(dispatchLog, c, "failed")
    /\ lastOp' = NoOp
    /\ UNCHANGED << messages, response_cache, request_timestamps, request_queue, now,
                    conf, batch, responses, wake, answered, direct, insertOrder, ui, held >>

\* send_message raises: process_batch logs the error and raises it again
DispatchFail(c) ==
    /\ pc[c] = "await"
    /\ pc' = [pc EXCEPT ![c] = "raised"]
    /\ dispatchLog' = LogSettle(dispatchLog, c, "failed")
    /\ lastOp' = NoOp
    /\ UNCHANGED << messages, response_cache, request_timestamps, request_queue, now,
                    conf, batch, responses, idx, wake, answered, direct, insertOrder, ui, held >>

\* the caller has the result (the list, or the exception): the coroutine is gone
BatchEnd(c) ==
    /\ pc[c] \in {"returned", "raised"}
    /\ pc' = [pc EXCEPT ![c] = "idle"]
    /\ batch' = [batch EXCEPT ![c] = <<>>]
    /\ responses' = [responses EXCEPT ![c] = <<>>]
    /\ idx' = [idx EXCEPT ![c] = 0]
    /\ answered' = [answered EXCEPT ![c] = {}]
    /\ lastOp' = NoOp
    /\ UNCHANGED << messages, response_cache, request_timestamps, request_queue, now,
                    conf, wake, direct, insertOrder, dispatchLog, ui, held >>

-----------------------------------------------------------------------------
(* Specifications *)

\* One process_batch consumer at a time, in either mode; callers queue
\* requests and clear the history beside it.
Next ==
    \/ Tick
    \/ \E m \in MessageTexts : QueueRequest(m)
    \/ ClearHistory
    \/ \E c \in consumers : BatchStart(c)
    \/ \E c \in consumers : DrainGet(c)
    \/ \E c \in consumers : DrainWait(c)
    \/ \E c \in consumers : DrainTimeout(c)
    \/ \E c \in consumers : CacheHit(c)
    \/ \E c \in consumers : GateBlocked(c)
    \/ \E c \in consumers : DispatchIndexError(c)
    \/ \E c \in consumers : DispatchTest(c)
    \/ \E c \in consumers : DispatchStart(c)
    \/ \E c \in consumers, r \in Completions : DispatchReturn(c, r)
    \/ \E c \in consumers : DispatchFail(c)
    \/ \E c \in consumers : BatchEnd(c)

Spec == Init /\ [][Next]_vars

\* The rate limiter: can_make_request called directly beside one consumer
\* that dispatches to the remote API.
InitRate == Init /\ ~test_mode

NextRate ==
    \/ Tick
    \/ \E m \in DirectTexts : QueueRequest(m)
    \/ CanMakeRequest
    \/ ClearHistory
    \/ \E c \in consumers : BatchStart(c)
    \/ \E c \in consumers : DrainGet(c)
    \/ \E c \in consumers : DrainWait(c)
    \/ \E c \in consumers : DrainTimeout(c)
    \/ \E c \in consumers : CacheHit(c)
    \/ \E c \in consumers : GateBlocked(c)
    \/ \E c \in consumers : DispatchStart(c)
    \/ \E c \in consumers, r \in Completions : DispatchReturn(c, r)
    \/ \E c \in consumers : DispatchFail(c)
    \/ \E c \in consumers : BatchEnd(c)

SpecRate == InitRate /\ [][NextRate]_vars

\* send_message called directly beside one consumer, every outbound call logged
InitDirect ==
    /\ InitInstance
    /\ ~test_mode
    /\ api_key = ValidKey
    /\ consumers = {1}
    /\ logging = TRUE

NextDirect ==
    \/ Tick
    \/ \E m \in DirectTexts : QueueRequest(m)
    \/ ClearHistory
    \/ \E m \in DirectTexts : SendStart(m)
    \/ \E r \in DirectCompletions : SendReturn(r)
    \/ SendFail
    \/ \E c \in consumers : BatchStart(c)
    \/ \E c \in consumers : DrainGet(c)
    \/ \E c \in consumers : DrainWait(c)
    \/ \E c \in consumers : DrainTimeout(c)
    \/ \E c \in consumers : CacheHit(c)
    \/ \E c \in consumers : GateBlocked(c)
    \/ \E c \in consumers : DispatchStart(c)
    \/ \E c \in consumers, r \in Completions : DispatchReturn(c, r)
    \/ \E c \in consumers : DispatchFail(c)
    \/ \E c \in consumers : BatchEnd(c)

SpecDirect == InitDirect /\ [][NextDirect]_vars

\* Two process_batch coroutines on one instance, within one second of the clock
InitConc ==
    /\ InitInstance
    /\ ~test_mode
    /\ api_key = ValidKey
    /\ consumers = Consumers
    /\ logging = FALSE

NextConc ==
    \/ \E m \in DirectTexts : QueueRequest(m)
    \/ ClearHistory
    \/ \E c \in consumers : BatchStart(c)
    \/ \E c \in consumers : DrainGet(c)
    \/ \E c \in consumers : CacheHit(c)
    \/ \E c \in consumers : GateBlocked(c)
    \/ \E c \in consumers : DispatchStart(c)
    \/ \E c \in consumers, r \in Completions : DispatchReturn(c, r)
    \/ \E c \in consumers : DispatchFail(c)
    \/ \E c \in consumers : BatchEnd(c)

SpecConc == InitConc /\ [][NextConc]_vars

\* The cache, written by direct calls and by process_batch in test mode
InitCache == Init /\ test_mode

NextCache ==
    \/ \E m \in MessageTexts, r \in Completions, x \in Contexts : UpdateCache(m, r, x)
    \/ \E m \in MessageTexts, x \in Contexts : GetCachedResponse(m, x)
    \/ \E m \in DirectTexts : QueueRequest(m)
    \/ \E c \in consumers : BatchStart(c)
    \/ \E c \in consumers : DrainGet(c)
    \/ \E c \in consumers : CacheHit(c)
    \/ \E c \in consumers : DispatchTest(c)
    \/ \E c \in consumers : BatchEnd(c)

SpecCache == InitCache /\ [][NextCache]_vars

\* The cache key, computed for pairs of texts
\* ChatInterface(api_key, test_mode): a construction that succeeds replaces the
\* instance by a fresh one, one that raises leaves the caller with what it had
ConstructInstance(key, mode) ==
    LET res == Construct(key, mode)
    IN  /\ direct.pc = "idle"
        /\ \A c \in Consumers : pc[c] = "idle"
        /\ lastOp' = Op("init", key, <<>>, <<>>, mode, res)
        /\ IF res = "ok"
           THEN /\ api_key' = key
                /\ test_mode' = mode
                /\ messages' = <<>>
                /\ response_cache' = <<>>
                /\ request_timestamps' = <<>>
                /\ request_queue' = <<>>
                /\ settings' = DefaultSettings
                /\ insertOrder' = <<>>
                /\ dispatchLog' = <<>>
                /\ direct' = NoCall
                /\ UNCHANGED << consumers, logging, now, batchVars, ui, held >>
           ELSE UNCHANGED << messages, response_cache, request_timestamps, request_queue,
                             now, conf, batchVars, direct, insertOrder, dispatchLog, ui, held >>

InitConstruct == Init
NextConstruct == \E key \in Credentials, mode \in BOOLEAN : ConstructInstance(key, mode)
SpecConstruct == InitConstruct /\ [][NextConstruct]_vars

InitKey == Init /\ test_mode

NextKey == \E m \in KeyTexts, x \in KeyTexts : GenerateCacheKey(m, x)

SpecKey == InitKey /\ [][NextKey]_vars

\* The drain phase: n messages have been queued on a fresh test-mode instance
\* and nothing is queued afterwards, while one consumer calls process_batch
\* again and again
InitDrain ==
    /\ request_queue \in QueuedTexts
    /\ messages = <<>>
    /\ response_cache = <<>>
    /\ request_timestamps = <<>>
    /\ test_mode = TRUE
    /\ api_key = <<>>
    /\ settings = DefaultSettings
    /\ logging = FALSE
    /\ consumers = {1}
    /\ now = 0
    /\ pc = Idle
    /\ batch = Empty
    /\ responses = Empty
    /\ idx = Zero
    /\ wake = Zero
    /\ direct = NoCall
    /\ insertOrder = <<>>
    /\ answered = NoAnswers
    /\ dispatchLog = <<>>
    /\ lastOp = NoOp
    /\ ui = NoUI
    /\ held = NoHeld

NextDrain ==
    \/ Tick
    \/ \E c \in consumers : BatchStart(c)
    \/ \E c \in consumers : DrainGet(c)
    \/ \E c \in consumers : DrainWait(c)
    \/ \E c \in consumers : DrainTimeout(c)
    \/ \E c \in consumers : CacheHit(c)
    \/ \E c \in consumers : DispatchIndexError(c)
    \/ \E c \in consumers : DispatchTest(c)
    \/ \E c \in consumers : BatchEnd(c)

SpecDrain == InitDrain /\ [][NextDrain]_vars

(***************************************************************************)
(* ChatUI: pagination                                                      *)
(***************************************************************************)
Max(a, b) == IF a >= b THEN a ELSE b

\* _get_total_pages
get_total_pages(session) ==
    LET total_messages == Len(session)
        conversations == total_messages \div 2
        conversations_per_page == MESSAGES_PER_PAGE \div 2
    IN  Max(1, (conversations + conversations_per_page - 1) \div conversations_per_page)

\* Mutant: the last page is tested with <=.
NextPage_OffByOne ==
    LET total_pages == get_total_pages(ui.messages)
        page == IF ui.current_page <= total_pages - 1
                THEN ui.current_page + 1 ELSE ui.current_page
    IN  /\ ui' = [ui EXCEPT !.current_page = page]
        /\ lastOp' = Op("next_page", <<>>, <<>>, <<>>, ui.current_page, page)
        /\ UNCHANGED << messages, response_cache, request_timestamps, request_queue, now,
                        conf, batchVars, direct, insertOrder, dispatchLog, held >>

\* _next_page
NextPage ==
    LET total_pages == get_total_pages(ui.messages)
        page == IF ui.current_page < total_pages - 1
                THEN ui.current_page + 1 ELSE ui.current_page
    IN  /\ ui' = [ui EXCEPT !.current_page = page]
        /\ lastOp' = Op("next_page", <<>>, <<>>, <<>>, ui.current_page, page)
        /\ UNCHANGED << messages, response_cache, request_timestamps, request_queue, now,
                        conf, batchVars, direct, insertOrder, dispatchLog, held >>

\* _prev_page
PrevPage ==
    LET page == IF ui.current_page > 0 THEN ui.current_page - 1 ELSE ui.current_page
    IN  /\ ui' = [ui EXCEPT !.current_page = page]
        /\ lastOp' = Op("prev_page", <<>>, <<>>, <<>>, ui.current_page, page)
        /\ UNCHANGED << messages, response_cache, request_timestamps, request_queue, now,
                        conf, batchVars, direct, insertOrder, dispatchLog, held >>

\* A fixed list of session messages, user and assistant in turn, and the two
\* page buttons
SessionOf(n) ==
    [i \in 1..n |-> IF i % 2 = 1 THEN User(<<"m">>) ELSE Assistant(<<"r">>)]

InitPage ==
    /\ messages = <<>>
    /\ response_cache = <<>>
    /\ request_timestamps = <<>>
    /\ request_queue = <<>>
    /\ test_mode = TRUE
    /\ api_key = <<>>
    /\ settings = DefaultSettings
    /\ logging = FALSE
    /\ consumers = {1}
    /\ now = 0
    /\ pc = Idle
    /\ batch = Empty
    /\ responses = Empty
    /\ idx = Zero
    /\ wake = Zero
    /\ direct = NoCall
    /\ insertOrder = <<>>
    /\ answered = NoAnswers
    /\ dispatchLog = <<>>
    /\ lastOp = NoOp
    /\ \E n \in 0..MaxSession : ui = [NoUI EXCEPT !.messages = SessionOf(n)]
    /\ held = NoHeld

NextPageSpec ==
    \/ NextPage
    \/ PrevPage

SpecPage == InitPage /\ [][NextPageSpec]_vars

(***************************************************************************)
(* ChatUI: input handling, keyboard shortcuts, saved conversations         *)
(***************************************************************************)
\* _handle_user_input from is_processing = True to the first iteration of the
\* stream: the user message is shown and kept in the session
StartInput(u, prompt, via) ==
    [u EXCEPT !.is_processing = TRUE, !.messages = Append(@, User(prompt)),
              !.pc = "iterating", !.via = via, !.prompt = prompt,
              !.consumed = 0, !.full_response = <<>>]

\* _handle_user_input called by render() with a prompt typed: it runs up to
\* the first iteration of send_message_stream(prompt), whose generator exists
\* but has run nothing yet
HandleUserInput(input) ==
    /\ ui.pc = "idle"
    /\ direct.pc = "idle"
    /\ Truthy(input)
    /\ Len(ui.messages) < MaxHistory
    /\ ui' = StartInput(ui, input[1], "render")
    /\ direct' = NoCall
    /\ lastOp' = Op("input", input[1], <<>>, <<>>, "render", "started")
    /\ UNCHANGED << messages, response_cache, request_timestamps, request_queue, now,
                    conf, batchVars, insertOrder, dispatchLog, held >>

\* the body of the async for: the chunk handed over is added to full_response
InputChunk ==
    /\ ui.pc = "iterating"
    /\ ui.consumed < Len(direct.yielded)
    /\ ui' = [ui EXCEPT !.full_response = @ \o direct.yielded[ui.consumed + 1],
                        !.consumed = @ + 1]
    /\ lastOp' = NoOp
    /\ UNCHANGED << messages, response_cache, request_timestamps, request_queue, now,
                    conf, batchVars, direct, insertOrder, dispatchLog, held >>

\* the stream is exhausted: the assistant message is kept in the session and
\* st.rerun() is called, which returns when no script run is under way and
\* otherwise raises the script runner's control exception, one that
\* "except Exception" does not catch; the finally clause runs in both cases,
\* and the reset at the end of _handle_keyboard_shortcuts only in the first
InputDone(rerun_raises) ==
    /\ ui.pc = "iterating"
    /\ direct.pc = "idle"
    /\ direct.outcome = "exhausted"
    /\ ui.consumed = Len(direct.yielded)
    /\ ui' = [ui EXCEPT !.messages = Append(@, Assistant(ui.full_response)),
                        !.is_processing = FALSE, !.pc = "idle", !.via = "none",
                        !.keyboard_trigger =
                            IF ui.via = "keyboard" /\ ~rerun_raises THEN NoneVal ELSE @]
    /\ lastOp' = Op("input", ui.prompt, <<>>, ui.full_response, ui.via,
                    IF rerun_raises THEN "rerun" ELSE "returned")
    /\ UNCHANGED << messages, response_cache, request_timestamps, request_queue, now,
                    conf, batchVars, direct, insertOrder, dispatchLog, held >>

\* Mutant: is_processing is reset at the end of the try block, not in a finally.
InputError_NoFinally ==
    /\ ui.pc = "iterating"
    /\ direct.pc = "idle"
    /\ direct.outcome \in {"ValueError", "APIError"}
    /\ ui.consumed = Len(direct.yielded)
    /\ ui' = [ui EXCEPT !.error = Some(direct.outcome),
                        !.pc = "idle", !.via = "none",
                        !.keyboard_trigger = IF ui.via = "keyboard" THEN NoneVal ELSE @]
    /\ lastOp' = Op("input", ui.prompt, <<>>, <<>>, ui.via, "reported")
    /\ UNCHANGED << messages, response_cache, request_timestamps, request_queue, now,
                    conf, batchVars, direct, insertOrder, dispatchLog, held >>

\* the stream raised (ValueError without a key, the API error otherwise):
\* except Exception logs and shows it, finally resets is_processing, and the
\* handler returns
InputError ==
    /\ ui.pc = "iterating"
    /\ direct.pc = "idle"
    /\ direct.outcome \in {"ValueError", "APIError"}
    /\ ui.consumed = Len(direct.yielded)
    /\ ui' = [ui EXCEPT !.error = Some(direct.outcome),
                        !.is_processing = FALSE, !.pc = "idle", !.via = "none",
                        !.keyboard_trigger = IF ui.via = "keyboard" THEN NoneVal ELSE @]
    /\ lastOp' = Op("input", ui.prompt, <<>>, <<>>, ui.via, "reported")
    /\ UNCHANGED << messages, response_cache, request_timestamps, request_queue, now,
                    conf, batchVars, direct, insertOrder, dispatchLog, held >>

\* the page script reports a key press
SetTrigger(t) ==
    /\ ui.keyboard_trigger # Some(t)
    /\ ui' = [ui EXCEPT !.keyboard_trigger = Some(t)]
    /\ lastOp' = NoOp
    /\ UNCHANGED << messages, response_cache, request_timestamps, request_queue, now,
                    conf, batchVars, direct, insertOrder, dispatchLog, held >>

\* Mutant: ctrl+l empties the session messages only.
HandleKeyboardShortcuts_SessionOnly(prompt, prompt2) ==
    LET trigger == ui.keyboard_trigger
        enter == trigger = Some("enter") /\ ~ui.is_processing
        clear == ~enter /\ trigger = Some("ctrl+l")
        typed == enter /\ Truthy(prompt)
        starts == typed /\ Truthy(prompt2)
        shown == IF typed THEN [ui EXCEPT !.messages = Append(@, User(prompt[1]))] ELSE ui
    IN  /\ trigger # NoneVal
        /\ typed => Len(ui.messages) < MaxHistory
        /\ starts => (ui.pc = "idle" /\ direct.pc = "idle")
        /\ ui' = IF starts THEN StartInput(shown, prompt2[1], "keyboard")
                 ELSE IF clear THEN [ui EXCEPT !.messages = <<>>, !.keyboard_trigger = NoneVal]
                 ELSE [shown EXCEPT !.keyboard_trigger = NoneVal]
        /\ direct' = IF starts THEN NoCall ELSE direct
        /\ lastOp' = Op("keyboard", <<>>, <<>>, <<>>,
                        [trigger |-> trigger[1], is_processing |-> ui.is_processing,
                         had |-> (ui.messages # <<>> /\ messages # <<>>)],
                        IF starts THEN "awaiting" ELSE "returned")
        /\ UNCHANGED << messages, response_cache, request_timestamps, request_queue, now,
                        conf, batchVars, insertOrder, dispatchLog, held >>

\* _handle_keyboard_shortcuts, up to its return or, when it starts an input,
\* up to the first iteration of the stream inside _handle_user_input: prompt
\* is what its own chat_input returns, prompt2 what the one of
\* _handle_user_input returns
HandleKeyboardShortcuts(prompt, prompt2) ==
    LET trigger == ui.keyboard_trigger
        enter == trigger = Some("enter") /\ ~ui.is_processing
        clear == ~enter /\ trigger = Some("ctrl+l")
        typed == enter /\ Truthy(prompt)
        starts == typed /\ Truthy(prompt2)
        shown == IF typed THEN [ui EXCEPT !.messages = Append(@, User(prompt[1]))] ELSE ui
    IN  /\ trigger # NoneVal
        /\ typed => Len(ui.messages) < MaxHistory
        /\ starts => (ui.pc = "idle" /\ direct.pc = "idle")
        /\ ui' = IF starts THEN StartInput(shown, prompt2[1], "keyboard")
                 ELSE IF clear THEN [ui EXCEPT !.messages = <<>>, !.keyboard_trigger = NoneVal]
                 ELSE [shown EXCEPT !.keyboard_trigger = NoneVal]
        /\ messages' = IF clear THEN <<>> ELSE messages
        /\ held' = IF clear THEN Detached(held) ELSE held
        /\ direct' = IF starts THEN NoCall ELSE direct
        /\ lastOp' = Op("keyboard", <<>>, <<>>, <<>>,
                        [trigger |-> trigger[1], is_processing |-> ui.is_processing,
                         had |-> (ui.messages # <<>> /\ messages # <<>>)],
                        IF starts THEN "awaiting" ELSE "returned")
        /\ UNCHANGED << response_cache, request_timestamps, request_queue, now,
                        conf, batchVars, insertOrder, dispatchLog >>

\* json.dump / json.load of the message list: each message is written as its
\* keys and values in order and read back by key
JsonDump(session) ==
    [i \in 1..Len(session) |-> << "role", session[i].role, "content", session[i].content >>]
JsonLoad(text) ==
    [i \in 1..Len(text) |-> [role |-> text[i][2], content |-> text[i][4]]]

\* _save_conversation_to_file: the session messages and settings go to a new
\* file (saved: history, the message list that was written)
SaveConversation ==
    /\ Len(ui.files) < MaxFiles
    /\ ui' = [ui EXCEPT !.files = Append(@, [model |-> settings.model_name,
                                             settings |-> ui.settings,
                                             messages |-> JsonDump(ui.messages),
                                             saved |-> ui.messages])]
    /\ lastOp' = Op("save", <<>>, <<>>, <<>>, <<>>, ui.messages)
    /\ UNCHANGED << messages, response_cache, request_timestamps, request_queue, now,
                    conf, batchVars, direct, insertOrder, dispatchLog, held >>

\* _load_conversation_from_file: the session messages and the settings of the
\* session and of the interface are set from the file
LoadConversation(k) ==
    /\ k \in DOMAIN ui.files
    /\ ui' = [ui EXCEPT !.messages = JsonLoad(ui.files[k].messages),
                        !.settings = ui.files[k].settings]
    /\ settings' = ui.files[k].settings
    /\ lastOp' = Op("load", <<>>, <<>>, <<>>, k, JsonLoad(ui.files[k].messages))
    /\ UNCHANGED << messages, response_cache, request_timestamps, request_queue, now,
                    test_mode, api_key, consumers, logging, batchVars, direct,
                    insertOrder, dispatchLog, held >>

\* One ChatUI on an instance with a key, or on a test-mode instance without
\* one: inputs typed and handled, the stream iterated by _handle_user_input,
\* key presses, and conversations saved and loaded between inputs
InitUI ==
    /\ InitInstance
    /\ test_mode = (api_key = <<>>)
    /\ consumers = {1}
    /\ logging = FALSE

NextUI ==
    \/ \E t \in Triggers : SetTrigger(t)
    \/ \E p \in PromptInputs, p2 \in PromptInputs : HandleKeyboardShortcuts(p, p2)
    \/ \E p \in PromptInputs : HandleUserInput(p)
    \/ ui.pc = "iterating" /\ direct = NoCall /\ StreamValueError(ui.prompt)
    \/ ui.pc = "iterating" /\ direct = NoCall /\ StreamStart(ui.prompt)
    \/ StreamOpen
    \/ \E d \in UIDeltas : ui.consumed = Len(direct.yielded) /\ StreamChunk(d)
    \/ ui.consumed = Len(direct.yielded) /\ StreamExhaust
    \/ ui.consumed = Len(direct.yielded) /\ StreamFail
    \/ InputChunk
    \/ \E raises \in BOOLEAN : InputDone(raises)
    \/ InputError

SpecUI == InitUI /\ [][NextUI]_vars

\* The same ChatUI without key presses, whose conversations are saved and
\* loaded between inputs
NextPersist ==
    \/ \E p \in PromptInputs : HandleUserInput(p)
    \/ ui.pc = "iterating" /\ direct = NoCall /\ StreamValueError(ui.prompt)
    \/ ui.pc = "iterating" /\ direct = NoCall /\ StreamStart(ui.prompt)
    \/ StreamOpen
    \/ \E d \in UIDeltas : ui.consumed = Len(direct.yielded) /\ StreamChunk(d)
    \/ ui.consumed = Len(direct.yielded) /\ StreamExhaust
    \/ ui.consumed = Len(direct.yielded) /\ StreamFail
    \/ InputChunk
    \/ \E raises \in BOOLEAN : InputDone(raises)
    \/ InputError
    \/ ui.pc = "idle" /\ SaveConversation
    \/ \E k \in 1..MaxFiles : ui.pc = "idle" /\ LoadConversation(k)

SpecPersist == InitUI /\ [][NextPersist]_vars

\* The history operations and a caller that changes the list it exported or imported
InitHistory == Init

NextHistory ==
    \/ \E h \in HistoryLists : ImportHistory(h)
    \/ ExportHistory
    \/ RoundTrip
    \/ ClearHistory
    \/ \E m \in HistoryMessages : HeldAppend(m)
    \/ \E i \in 1..MaxHeld : HeldRemove(i)
    \/ \E i \in 1..MaxHeld : \E v \in HistoryRoles : HeldSet(i, "role", v)
    \/ \E i \in 1..MaxHeld : \E v \in HistoryContents : HeldSet(i, "content", v)

SpecHistory == InitHistory /\ [][NextHistory]_vars

\* Every operation that writes self.messages, on one instance with a key and
\* batch_size queued requests: send_message, send_message_stream and
\* process_batch, interleaved at their awaits, and clear_history and
\* import_history between their steps
InitAppend ==
    /\ messages = <<>>
    /\ response_cache = <<>>
    /\ request_timestamps = <<>>
    /\ request_queue \in [1..batch_size -> DirectTexts]
    /\ test_mode = FALSE
    /\ api_key = ValidKey
    /\ settings = DefaultSettings
    /\ logging = FALSE
    /\ consumers = {1}
    /\ now = 0
    /\ pc = Idle
    /\ batch = Empty
    /\ responses = Empty
    /\ idx = Zero
    /\ wake = Zero
    /\ direct = NoCall
    /\ insertOrder = <<>>
    /\ answered = NoAnswers
    /\ dispatchLog = <<>>
    /\ lastOp = NoOp
    /\ ui = NoUI
    /\ held = NoHeld

NextAppend ==
    \/ ClearHistory
    \/ \E h \in Histories : ImportHistory(h)
    \/ \E m \in DirectTexts : SendStart(m)
    \/ \E r \in DirectCompletions : SendReturn(r)
    \/ SendFail
    \/ \E m \in DirectTexts : StreamStart(m)
    \/ StreamOpen
    \/ \E r \in DirectCompletions : StreamChunk(Some(r))
    \/ StreamExhaust
    \/ StreamCancel
    \/ StreamFail
    \/ \E c \in consumers : BatchStart(c)
    \/ \E c \in consumers : DrainGet(c)
    \/ \E c \in consumers : CacheHit(c)
    \/ \E c \in consumers : DispatchStart(c)
    \/ \E c \in consumers, r \in DirectCompletions : DispatchReturn(c, r)
    \/ \E c \in consumers : DispatchFail(c)
    \/ \E c \in consumers : BatchEnd(c)

SpecAppend == InitAppend /\ [][NextAppend]_vars

\* One process_batch consumer that dispatches to the remote API, no direct
\* calls, every dispatch logged with the time it started; a dispatch takes
\* any time, and an empty completion is never a cache hit, so the same text
\* is dispatched again
InitBatchRate ==
    /\ InitInstance
    /\ ~test_mode
    /\ api_key = ValidKey
    /\ consumers = {1}
    /\ logging = TRUE

NextBatchRate ==
    \/ Tick
    \/ \E m \in DirectTexts : QueueRequest(m)
    \/ ClearHistory
    \/ \E c \in consumers : BatchStart(c)
    \/ \E c \in consumers : DrainGet(c)
    \/ \E c \in consumers : DrainWait(c)
    \/ \E c \in consumers : DrainTimeout(c)
    \/ \E c \in consumers : CacheHit(c)
    \/ \E c \in consumers : GateBlocked(c)
    \/ \E c \in consumers : DispatchStart(c)
    \/ \E c \in consumers, r \in Completions : DispatchReturn(c, r)
    \/ \E c \in consumers : DispatchFail(c)
    \/ \E c \in consumers : BatchEnd(c)

SpecBatchRate == InitBatchRate /\ [][NextBatchRate]_vars

\* A second goes by on a clock that runs on for ever.  Times are only ever
\* compared with the clock (now - t > request_window, now >= wake), so once
\* the clock reads MaxTime the recorded times move back by a second instead,
\* and a time older than the window stays just older than the window.
Elapse ==
    LET back(t) == Max(t - 1, MaxTime - request_window - 1)
    IN  /\ lastOp' = NoOp
        /\ IF now < MaxTime
           THEN /\ now' = now + 1
                /\ dispatchLog' = LogPrune(dispatchLog, now + 1)
                /\ UNCHANGED << request_timestamps, wake >>
           ELSE /\ now' = now
                /\ request_timestamps' =
                       [i \in DOMAIN request_timestamps |-> back(request_timestamps[i])]
                /\ wake' = [c \in Consumers |-> Max(wake[c] - 1, 0)]
                /\ dispatchLog' =
                       LogPrune([i \in DOMAIN dispatchLog |->
                                    [dispatchLog[i] EXCEPT !.t = back(@)]], now)
        /\ UNCHANGED << messages, response_cache, request_queue, conf, pc, batch,
                        responses, idx, answered, direct, insertOrder, ui, held >>

\* what coroutine c does when the event loop runs it, and the end of its dispatch
ConsumerStep(c) ==
    \/ DrainGet(c)
    \/ DrainWait(c)
    \/ DrainTimeout(c)
    \/ CacheHit(c)
    \/ GateBlocked(c)
    \/ DispatchIndexError(c)
    \/ DispatchTest(c)
    \/ DispatchStart(c)

DispatchEnds(c) ==
    \/ \E r \in Completions : DispatchReturn(c, r)
    \/ DispatchFail(c)

\* One consumer calling process_batch again and again while messages are
\* queued beside it: the clock advances, the event loop runs a coroutine that
\* is ready, and a dispatch returns or raises.  The history, which the model
\* caps at MaxHistory, is emptied by its owner, so the cap holds no dispatch
\* back for ever.
InitLive == Init

NextLive ==
    \/ Elapse
    \/ \E m \in DirectTexts : QueueRequest(m)
    \/ ClearHistory
    \/ \E c \in consumers : BatchStart(c)
    \/ \E c \in consumers : ConsumerStep(c)
    \/ \E c \in consumers : DispatchEnds(c)
    \/ \E c \in consumers : BatchEnd(c)

SpecLive ==
    /\ InitLive
    /\ [][NextLive]_vars
    /\ WF_vars(Elapse)
    /\ WF_vars(ClearHistory)
    /\ \A c \in Consumers : WF_vars(c \in consumers /\ ConsumerStep(c))
    /\ \A c \in Consumers : WF_vars(c \in consumers /\ DispatchEnds(c))

\* Two process_batch coroutines on one instance that interleave at their
\* awaits, every dispatch logged with the time it started
InitRace ==
    /\ InitInstance
    /\ ~test_mode
    /\ api_key = ValidKey
    /\ consumers = Consumers
    /\ logging = TRUE

NextRace ==
    \/ Tick
    \/ NextConc

SpecRace == InitRace /\ [][NextRace]_vars

\* send_message or send_message_stream called directly while a process_batch
\* coroutine calls send_message for a queued message (line 322): two calls on
\* one instance that overlap at the await of create.  The history is cleared
\* only while no call is in flight.
OtherTexts == MessageTexts \ DirectTexts

InitOverlap ==
    /\ InitInstance
    /\ ~test_mode
    /\ api_key = ValidKey
    /\ consumers = {1}
    /\ logging = FALSE

NextOverlap ==
    \/ \E m \in DirectTexts : QueueRequest(m)
    \/ direct.pc = "idle" /\ (\A c \in consumers : pc[c] # "await") /\ ClearHistory
    \/ \E m \in OtherTexts : SendStart(m)
    \/ \E r \in DirectCompletions : SendReturn(r)
    \/ SendFail
    \/ \E m \in OtherTexts : StreamStart(m)
    \/ StreamOpen
    \/ \E d \in UIDeltas : StreamChunk(d)
    \/ StreamExhaust
    \/ StreamFail
    \/ \E c \in consumers : BatchStart(c)
    \/ \E c \in consumers : DrainGet(c)
    \/ \E c \in consumers : CacheHit(c)
    \/ \E c \in consumers : DispatchStart(c)
    \/ \E c \in consumers, r \in DirectCompletions : DispatchReturn(c, r)
    \/ \E c \in consumers : DispatchFail(c)
    \/ \E c \in consumers : BatchEnd(c)

SpecOverlap == InitOverlap /\ [][NextOverlap]_vars

\* process_batch on an instance whose history changes beside it: messages are
\* queued again and again, the owner sends directly, clears the history and
\* imports one; the API may answer with the empty string
InitCtx == Init /\ ~test_mode

NextCtx ==
    \/ \E m \in DirectTexts : QueueRequest(m)
    \/ ClearHistory
    \/ \E h \in Histories : ImportHistory(h)
    \/ \E m \in OtherTexts : SendStart(m)
    \/ \E r \in DirectCompletions : SendReturn(r)
    \/ SendFail
    \/ \E c \in consumers : BatchStart(c)
    \/ \E c \in consumers : DrainGet(c)
    \/ \E c \in consumers : CacheHit(c)
    \/ \E c \in consumers : GateBlocked(c)
    \/ \E c \in consumers : DispatchStart(c)
    \/ \E c \in consumers, r \in Completions : DispatchReturn(c, r)
    \/ \E c \in consumers : DispatchFail(c)
    \/ \E c \in consumers : BatchEnd(c)

SpecCtx == InitCtx /\ [][NextCtx]_vars

\* The chat page used one step after the other: an input is handled to its
\* end (the stream is exhausted, or fails, or the key is missing), and ctrl+l
\* is handled while no input is in flight
NextSession ==
    \/ SetTrigger("ctrl+l")
    \/ \E p \in PromptInputs, p2 \in PromptInputs :
          ui.pc = "idle" /\ HandleKeyboardShortcuts(p, p2)
    \/ \E p \in PromptInputs : HandleUserInput(p)
    \/ ui.pc = "iterating" /\ direct = NoCall /\ StreamValueError(ui.prompt)
    \/ ui.pc = "iterating" /\ direct = NoCall /\ StreamStart(ui.prompt)
    \/ StreamOpen
    \/ \E d \in Deltas : ui.consumed = Len(direct.yielded) /\ StreamChunk(d)
    \/ ui.consumed = Len(direct.yielded) /\ StreamExhaust
    \/ ui.consumed = Len(direct.yielded) /\ StreamFail
    \/ InputChunk
    \/ \E raises \in BOOLEAN : InputDone(raises)
    \/ InputError

SpecSession == InitUI /\ [][NextSession]_vars

\* The direct calls, one at a time: send_message and send_message_stream on an
\* instance with a key, or on a test-mode instance without one, whose owner
\* changes one setting at a time, and the history, only between calls
InitSend ==
    /\ InitInstance
    /\ test_mode = (api_key = <<>>)
    /\ consumers = {1}
    /\ logging = FALSE

NextSend ==
    \/ \E name \in DOMAIN ParamValues :
          \E value \in ParamValues[name] :
             /\ direct.pc = "idle"
             /\ settings = DefaultSettings \/ value = DefaultSettings[name]
             /\ SetParam(name, value)
    \/ \E h \in Histories : direct.pc = "idle" /\ ImportHistory(h)
    \/ direct.pc = "idle" /\ ClearHistory
    \/ \E m \in DirectTexts : SendValueError(m)
    \/ \E m \in DirectTexts : SendStart(m)
    \/ \E r \in Completions : SendReturn(r)
    \/ SendFail
    \/ \E m \in DirectTexts : StreamValueError(m)
    \/ \E m \in DirectTexts : StreamStart(m)
    \/ StreamOpen
    \/ \E d \in Deltas : StreamChunk(d)
    \/ StreamExhaust
    \/ StreamCancel
    \/ StreamFail

SpecSend == InitSend /\ [][NextSend]_vars

-----------------------------------------------------------------------------
\* Properties of process_batch (checked under Spec)

\* C1: when process_batch returns, its list holds exactly one response per
\* drained message, and the response at position i is the one obtained for the
\* i-th drained message, whether it came from the cache or from a dispatch.
C1_OneResponsePerMessageInOrder ==
    \A c \in consumers :
        pc[c] = "returned" =>
            /\ Len(responses[c]) = Len(batch[c])
            /\ \A i \in DOMAIN batch[c] :
                   \E kind \in {"hit", "miss"} :
                       <<i, batch[c][i], responses[c][i], kind>> \in answered[c]

\* A returned batch of two messages, one answered from the cache and one by a dispatch.
C1_Witness ==
    \E c \in consumers :
        /\ pc[c] = "returned"
        /\ Len(batch[c]) = 2
        /\ {a[4] : a \in answered[c]} = {"hit", "miss"}

\* C2: a message whose key is present in the cache is answered by process_batch
\* with the cached response, without an outbound dispatch and without any change
\* to the rate window.
C2_PresentKeyAnsweredFromCache ==
    [][\A c \in consumers :
          (/\ pc[c] = "loop"
           /\ get_cached_response(response_cache, Current(c), <<>>) # NoneVal
           /\ <<pc[c], idx[c]>>' # <<pc[c], idx[c]>>)
          => /\ request_timestamps' = request_timestamps
             /\ messages' = messages
             /\ pc'[c] \notin {"await", "sleep", "raised"}
             /\ responses'[c] =
                    Append(responses[c],
                           get_cached_response(response_cache, Current(c), <<>>)[1])
      ]_vars

\* Timestamps of ts that lie within the window at time t.
RecentCount(ts, t) == Cardinality({i \in DOMAIN ts : t - ts[i] <= request_window})

\* The step of consumer c hands a message to the API / gets its completion /
\* makes the test-mode response / raises.
StartsDispatch(c) == pc[c] \in {"loop", "sleep"} /\ pc'[c] = "await"
DispatchSucceeds(c) == pc[c] = "await" /\ pc'[c] \in {"loop", "returned"}
TestDispatch(c) ==
    /\ test_mode
    /\ pc[c] \in {"loop", "sleep"}
    /\ Len(responses'[c]) = Len(responses[c]) + 1
    /\ \E a \in answered'[c] \ answered[c] : a[4] = "miss"
Raises(c) == pc[c] # "raised" /\ pc'[c] = "raised"

\* C3: on a cache miss the order is gate, dispatch, cache store, rate record:
\* no dispatch starts while the window already holds max_requests timestamps of
\* the last request_window seconds; the cache is written and a timestamp is
\* recorded only in the step in which a dispatch has succeeded, and then both
\* happen; a dispatch that raises writes nothing to the cache and records nothing.
C3_GateDispatchStoreRecord ==
    [][/\ \A c \in consumers :
            /\ (StartsDispatch(c) \/ TestDispatch(c))
                   => RecentCount(request_timestamps, now) < requests_per_minute
            /\ StartsDispatch(c)
                   => /\ response_cache' = response_cache
                      /\ Len(request_timestamps') <= Len(request_timestamps)
            /\ (DispatchSucceeds(c) \/ TestDispatch(c))
                   => /\ generate_cache_key(Current(c), <<>>) \in DictKeys(response_cache')
                      /\ request_timestamps' # <<>>
                      /\ request_timestamps'[Len(request_timestamps')] = now
            /\ Raises(c)
                   => /\ response_cache' = response_cache
                      /\ Len(request_timestamps') <= Len(request_timestamps)
       /\ (response_cache' # response_cache \/ Len(request_timestamps') > Len(request_timestamps))
              => \E c \in consumers : DispatchSucceeds(c) \/ TestDispatch(c)
      ]_vars

\* A dispatch has failed after the gate let it through: the consumer has raised
\* while the window still has room and the cache has no entry for its message.
C3_Witness ==
    \E c \in consumers :
        /\ pc[c] = "raised"
        /\ ~test_mode
        /\ request_timestamps # <<>>
        /\ generate_cache_key(Current(c), <<>>) \notin DictKeys(response_cache)

-----------------------------------------------------------------------------
\* Outbound calls per window (checked under SpecDirect, which logs every call
\* handed to the API together with the time it was started)

\* C4: in every window of request_window seconds the instance starts at most
\* requests_per_minute outbound chat-completion calls, whichever of
\* process_batch and send_message starts them.
C4_OutboundCallsBounded ==
    Cardinality({i \in DOMAIN dispatchLog : now - dispatchLog[i].t < request_window})
        <= requests_per_minute

-----------------------------------------------------------------------------
\* Properties of can_make_request (checked under SpecRate)

\* C5: a call of can_make_request that finds max_requests timestamps, all
\* recorded within the window, returns false; a call that finds only
\* timestamps older than the window returns true again.
C5_FullThenElapsed ==
    lastOp.op = "can_make_request" =>
        /\ (/\ Len(lastOp.pre) = requests_per_minute
            /\ \A i \in DOMAIN lastOp.pre : now - lastOp.pre[i] <= request_window)
               => lastOp.res = FALSE
        /\ (\A i \in DOMAIN lastOp.pre : now - lastOp.pre[i] > request_window)
               => lastOp.res = TRUE

\* The window was full, its timestamps have all aged out, and the call returned true.
C5_Witness ==
    /\ lastOp.op = "can_make_request"
    /\ Len(lastOp.pre) = requests_per_minute
    /\ \A i \in DOMAIN lastOp.pre : now - lastOp.pre[i] > request_window
    /\ lastOp.res = TRUE

\* C6: can_make_request removes from the front of the window exactly the
\* timestamps older than request_window, returns true iff fewer than
\* max_requests remain, never adds a timestamp, and leaves the cache, the queue
\* and the conversation unchanged.
C6_PrunesExactlyOldAndReports ==
    [][lastOp'.op = "can_make_request" =>
          /\ \E k \in 0..Len(request_timestamps) :
                /\ request_timestamps' = SubSeq(request_timestamps, k + 1, Len(request_timestamps))
                /\ \A i \in 1..k : now - request_timestamps[i] > request_window
                /\ \A i \in (k + 1)..Len(request_timestamps) :
                       now - request_timestamps[i] <= request_window
          /\ lastOp'.res = (Len(request_timestamps') < requests_per_minute)
          /\ UNCHANGED << response_cache, request_queue, messages, ui, held >>
      ]_vars

\* A call that pruned one timestamp, kept another, and found the cache, the
\* queue and the conversation all non-empty.
C6_Witness ==
    /\ lastOp.op = "can_make_request"
    /\ Len(lastOp.pre) = 2
    /\ Len(request_timestamps) = 1
    /\ response_cache # <<>>
    /\ request_queue # <<>>
    /\ messages # <<>>

-----------------------------------------------------------------------------
\* The bounded rate window (checked under SpecConc, where two process_batch
\* coroutines interleave at the dispatch await)

\* C7: in every reachable state the rate window holds at most max_requests
\* timestamps, in the order recorded; a record made when the window is full
\* drops the oldest timestamp.
C7_WindowBounded ==
    /\ Len(request_timestamps) <= requests_per_minute
    /\ \A i, j \in DOMAIN request_timestamps :
           i <= j => request_timestamps[i] <= request_timestamps[j]

\* More dispatches have been recorded at time 0 than the window holds: the
\* window is full and the oldest timestamp has been dropped.
C7_Witness ==
    /\ now = 0
    /\ Len(request_timestamps) = requests_per_minute
    /\ Cardinality({ci \in Consumers \X (1..batch_size) :
                        \E a \in answered[ci[1]] : a[1] = ci[2] /\ a[4] = "miss"})
           > requests_per_minute

-----------------------------------------------------------------------------
\* Properties of the response cache (checked under SpecCache)

\* C8: right after a put (_update_cache) of (context, message, response), a get
\* (get_cached_response) with the same context and message returns that
\* response, whatever the cache held before, a full cache included.
C8_PutThenGet ==
    lastOp.op = "put" =>
        get_cached_response(response_cache, lastOp.msg, lastOp.ctx) = Some(lastOp.resp)

\* A put of a new key with a non-empty context into a full cache.
C8_Witness ==
    /\ lastOp.op = "put"
    /\ lastOp.pre.len = cache_size
    /\ ~lastOp.pre.had
    /\ lastOp.ctx # <<>>
    /\ lastOp.msg # lastOp.ctx

\* C9: eviction is first-in-first-out by insertion order: a step that adds a new
\* key to a full cache removes exactly the key that was inserted earliest and
\* keeps every other entry; a get changes neither the cache nor the order in
\* which its keys will be evicted.
C9_FifoEviction ==
    [][/\ (/\ DictKeys(response_cache') \ DictKeys(response_cache) # {}
           /\ Len(response_cache) >= cache_size)
              => /\ DictKeys(response_cache) \ DictKeys(response_cache') = {Head(insertOrder)}
                 /\ \A k \in DictKeys(response_cache) \ {Head(insertOrder)} :
                        DictGet(response_cache', k) = DictGet(response_cache, k)
       /\ lastOp'.op = "get"
              => /\ response_cache' = response_cache
                 /\ insertOrder' = insertOrder
      ]_vars

\* A put of a new key into a full cache: the cache is still full and the new
\* key is the latest in insertion order.
C9_Witness ==
    /\ lastOp.op = "put"
    /\ lastOp.pre.len = cache_size
    /\ ~lastOp.pre.had
    /\ Len(response_cache) = cache_size
    /\ Len(insertOrder) = cache_size
    /\ insertOrder[cache_size] = generate_cache_key(lastOp.msg, lastOp.ctx)

\* C10: the cache never holds more than cache_size entries, after any sequence
\* of puts and of batch processing.
C10_CacheBounded == Len(response_cache) <= cache_size

\* One batch has dispatched the same message twice: its first entry was evicted
\* by puts of other keys, which leaves the cache full, and the batch has written
\* the entry again into the full cache.
C10_Witness ==
    /\ Len(response_cache) = cache_size
    /\ \E c \in consumers :
          \E a, b \in answered[c] :
             /\ a[1] < b[1]
             /\ a[2] = b[2]
             /\ a[4] = "miss"
             /\ b[4] = "miss"
             /\ response_cache[cache_size].key = generate_cache_key(b[2], <<>>)

-----------------------------------------------------------------------------
\* Properties of the cache key (checked under SpecKey)

\* C11: the cache key is deterministic and injective on its input pairs: of two
\* calls, identical (context, message) give the same key, and different
\* (context, message) give different digested strings, also when the texts
\* hold the ':' separator.
C11_KeyDeterministicInjective ==
    (lastOp.op = "key" /\ lastOp.pre.any) =>
        ((lastOp.pre.msg = lastOp.msg /\ lastOp.pre.ctx = lastOp.ctx)
             <=> lastOp.pre.key = lastOp.res)

-----------------------------------------------------------------------------
\* Failure of a dispatch inside process_batch (checked under Spec)

\* C12: a dispatch of process_batch ends either with its response appended or
\* with the error raised; once the error is raised the coroutine processes no
\* further message (it touches neither the conversation, the cache, the rate
\* window nor the queue) and can only hand the error to its caller; a list is
\* returned only when it holds a response for every message of the batch.
C12_FailureAbortsBatch ==
    [][\A c \in consumers :
          /\ (pc[c] = "await" /\ pc'[c] # "await")
                 => \/ pc'[c] = "raised"
                    \/ /\ pc'[c] \in {"loop", "returned"}
                       /\ Len(responses'[c]) = Len(responses[c]) + 1
          /\ pc[c] = "raised"
                 => /\ pc'[c] \in {"raised", "idle"}
                    /\ pc'[c] = "idle" =>
                           UNCHANGED << messages, response_cache, request_timestamps,
                                        request_queue, ui, held >>
                    /\ pc'[c] = "raised" =>
                           UNCHANGED << batch, responses, idx, ui, held >>
          /\ (pc[c] # "returned" /\ pc'[c] = "returned")
                 => Len(responses'[c]) = Len(batch'[c])
      ]_vars

\* A dispatch to the API has failed on the first message of a batch of two:
\* one message of the batch is left unprocessed.
C12_Witness ==
    \E c \in consumers :
        /\ ~test_mode
        /\ pc[c] = "raised"
        /\ idx[c] < Len(batch[c])

-----------------------------------------------------------------------------
\* The drain phase of process_batch (checked under SpecDrain, where nothing
\* is queued while a batch is drained)

Draining(c) == pc[c] \in {"drain", "drainwait"}

\* C13: process_batch starts with an empty batch; every step of its drain
\* phase keeps batch followed by queue the same sequence (messages move from
\* the head of the queue to the end of the batch, the rest stays queued in
\* order); a dequeue attempt that finds the queue empty ends the drain at its
\* timeout; the drain ends with min(n, batch_size) messages, n being what batch
\* and queue held together, and an empty batch returns the empty list.
C13_DrainTakesFifoPrefix ==
    [][\A c \in consumers :
          /\ (pc[c] = "idle" /\ pc'[c] # "idle")
                 => /\ Draining(c)'
                    /\ batch'[c] = <<>>
                    /\ request_queue' = request_queue
          /\ Draining(c)
                 => /\ batch'[c] \o request_queue' = batch[c] \o request_queue
                    /\ Len(batch'[c]) <= batch_size
                    /\ (pc[c] = "drainwait" /\ pc'[c] # "drainwait") => ~Draining(c)'
                    /\ ~Draining(c)'
                           => /\ Len(batch'[c]) =
                                     (IF Len(batch[c]) + Len(request_queue) < batch_size
                                      THEN Len(batch[c]) + Len(request_queue)
                                      ELSE batch_size)
                              /\ IF batch'[c] = <<>>
                                 THEN pc'[c] = "returned" /\ responses'[c] = <<>>
                                 ELSE pc'[c] = "loop" /\ idx'[c] = 1
      ]_vars

\* One message was queued, fewer than batch_size: the second dequeue attempt
\* timed out and process_batch has returned exactly one response.
C13_Witness ==
    \E c \in consumers :
        /\ pc[c] = "returned"
        /\ Len(batch[c]) = 1
        /\ batch_size > 1
        /\ Len(responses[c]) = 1
        /\ request_queue = <<>>
        /\ now >= batch_timeout
        /\ response_cache = << [key |-> generate_cache_key(batch[c][1], <<>>),
                                value |-> responses[c][1]] >>

-----------------------------------------------------------------------------
\* Properties of the direct calls (checked under SpecSend)

\* C14: send_message(m) called on conversation S sends S followed by the user
\* message m as the request's messages, and when it succeeds the conversation
\* is S, user m, assistant r, where r is the completion it returns.
C14_SendAppendsUserAndAssistant ==
    [][/\ (direct.pc = "idle" /\ direct'.pc = "await")
              => /\ direct'.before = messages
                 /\ Len(direct'.sent) = 1
                 /\ direct'.sent[1].messages =
                        messages \o << [role |-> "user", content |-> direct'.msg] >>
       /\ (direct.pc = "await" /\ direct'.outcome = "returned")
              => /\ direct.sent[1].messages =
                        direct.before \o << [role |-> "user", content |-> direct.msg] >>
                 /\ messages' =
                        direct.before \o << [role |-> "user", content |-> direct.msg],
                                            [role |-> "assistant", content |-> direct'.result] >>
      ]_vars

\* A send_message on a non-empty conversation has returned its completion.
C14_Witness ==
    /\ direct.call = "send"
    /\ direct.outcome = "returned"
    /\ direct.before # <<>>
    /\ direct.result # <<>>
    /\ Len(messages) = Len(direct.before) + 2

\* C15: every request of send_message carries the configured model name and
\* the configured temperature, top_p, presence_penalty and frequency_penalty,
\* as the requests of send_message_stream do.
C15_RequestsCarrySettings ==
    direct.pc \in {"await", "open"} =>
        /\ direct.sent[1].model = settings.model_name
        /\ {"temperature", "top_p", "presence_penalty", "frequency_penalty"}
               \subseteq DOMAIN direct.sent[1]
        /\ direct.sent[1].temperature = settings.temperature
        /\ direct.sent[1].top_p = settings.top_p
        /\ direct.sent[1].presence_penalty = settings.presence_penalty
        /\ direct.sent[1].frequency_penalty = settings.frequency_penalty

\* the fragments of the deltas that carry content / that carry non-empty content
PresentFragments(deltas) ==
    LET sel == SelectSeq(deltas, LAMBDA d : d # <<>>)
    IN  [i \in 1..Len(sel) |-> sel[i][1]]
NonEmptyFragments(deltas) ==
    LET sel == SelectSeq(deltas, LAMBDA d : d # <<>> /\ d[1] # <<>>)
    IN  [i \in 1..Len(sel) |-> sel[i][1]]

\* at exhaustion one assistant message, the yielded fragments joined, is
\* appended, and no step of the stream before that changes the conversation
ExhaustionAppendsJoined ==
    /\ (direct.pc \in {"next", "yield"} /\ direct'.outcome = "exhausted")
           => messages' = Append(messages, [role |-> "assistant",
                                            content |-> Join(direct.yielded)])
    /\ (direct.pc \in {"open", "next", "yield"} /\ direct'.outcome # "exhausted")
           => messages' = messages

\* C16 (as stated): send_message_stream yields the non-empty fragments in
\* arrival order, and at exhaustion appends exactly one assistant message, the
\* concatenation of the yielded fragments, none before.
C16_YieldsNonEmptyFragments ==
    [][/\ direct'.call = "stream" => direct'.yielded = NonEmptyFragments(direct'.arrived)
       /\ ExhaustionAppendsJoined
      ]_vars

\* C16 (amended): send_message_stream yields every fragment whose content is
\* not None, the empty string included, in arrival order, and at exhaustion
\* appends exactly one assistant message, the concatenation of the yielded
\* fragments, none before.
C16_YieldsPresentFragments ==
    [][/\ direct'.call = "stream" => direct'.yielded = PresentFragments(direct'.arrived)
       /\ ExhaustionAppendsJoined
      ]_vars

\* An exhausted stream that yielded an empty and a non-empty fragment.
C16_Witness ==
    /\ direct.call = "stream"
    /\ direct.outcome = "exhausted"
    /\ \E i, j \in DOMAIN direct.yielded :
          direct.yielded[i] = <<>> /\ direct.yielded[j] # <<>>
    /\ messages[Len(messages)].content # <<>>

\* C17: a consumer that stops iterating before the stream is exhausted leaves
\* the conversation as it was before the call.
C17_CancelLeavesConversation ==
    [][(direct.pc = "yield" /\ direct'.outcome = "cancelled")
           => messages' = direct.before
      ]_vars

\* C18: with test mode off the construction succeeds exactly when the key is
\* non-empty, starts with "sk-" and has at least 20 characters, and otherwise
\* ends with a ValueError; with test mode on it succeeds for every key.
C18_ConstructionValidatesKey ==
    lastOp.op = "init" =>
        LET key == lastOp.msg
            wellFormed == /\ key # <<>>
                          /\ Len(key) >= 20
                          /\ key[1] = "s" /\ key[2] = "k" /\ key[3] = "-"
        IN  /\ lastOp.pre => lastOp.res = "ok"
            /\ ~lastOp.pre => (lastOp.res = "ok" <=> wellFormed)
            /\ lastOp.res = "ok" => (api_key = key /\ test_mode = lastOp.pre)
            /\ lastOp.res # "ok" =>
                   lastOp.res \in {"API key is required unless test_mode is True",
                                   "API key cannot be empty", "Invalid API key format"}

\* A key of exactly 20 characters starting with "sk-" was accepted, test mode off.
C18_Witness ==
    /\ lastOp.op = "init"
    /\ ~lastOp.pre
    /\ lastOp.res = "ok"
    /\ Len(lastOp.msg) = 20

\* C19: on an instance with no key every send_message and send_message_stream
\* fails with the ValueError, sends no request and leaves the conversation
\* unchanged.
C19_NoKeyNoCall ==
    [][(api_key = <<>> /\ direct' # direct)
           => /\ direct'.pc = "idle"
              /\ direct'.outcome = "ValueError"
              /\ direct'.sent = <<>>
              /\ messages' = messages
              /\ dispatchLog' = dispatchLog
      ]_vars

\* A send_message_stream without a key has failed on a non-empty conversation.
C19_Witness ==
    /\ api_key = <<>>
    /\ direct.call = "stream"
    /\ direct.outcome = "ValueError"
    /\ messages # <<>>

\* C20: an invocation issues its one request when it starts and never another;
\* a send_message that leaves its await has either appended and returned the
\* completion or raised the API error with nothing appended; a stream ends
\* exhausted, cancelled or with the API error raised, nothing appended then.
C20_SingleAttemptErrorSurfaced ==
    [][/\ Len(direct'.sent) <= 1
       /\ direct'.sent # direct.sent => direct.pc = "idle"
       /\ (direct.pc = "await" /\ direct' # direct)
              => /\ direct'.pc = "idle"
                 /\ \/ /\ direct'.outcome = "returned"
                       /\ messages' = Append(messages, [role |-> "assistant",
                                                        content |-> direct'.result])
                    \/ /\ direct'.outcome = "APIError"
                       /\ messages' = messages
       /\ (direct.pc \in {"open", "next", "yield"} /\ direct'.pc = "idle")
              => /\ direct'.outcome \in {"exhausted", "cancelled", "APIError"}
                 /\ direct'.outcome = "APIError" => messages' = messages
      ]_vars

\* A stream has failed after a fragment was yielded: one request, error raised.
C20_Witness ==
    /\ direct.call = "stream"
    /\ direct.outcome = "APIError"
    /\ direct.yielded # <<>>
    /\ Len(direct.sent) = 1

-----------------------------------------------------------------------------
\* Properties of the history operations (checked under SpecHistory and Spec)

\* C21: no change a caller makes to the list export_history returned (an
\* append, a removal, a new role or content of one of its messages) changes
\* the conversation of the instance.
C21_ExportIsIndependent ==
    [][(lastOp'.op = "mutate" /\ held.origin = "export") => messages' = messages]_vars

\* C22: import_history(given) leaves the conversation equal to the given list,
\* and no later change the caller makes to that list or to one of its messages
\* changes the conversation of the instance.
C22_ImportIsIndependent ==
    [][/\ lastOp'.op = "import" => messages' = lastOp'.msg
       /\ (lastOp'.op = "mutate" /\ held.origin = "import") => messages' = messages
      ]_vars

\* C23: import_history(export_history()) leaves the conversation equal to what
\* it was, from every conversation, however often it is applied.
C23_RoundTripKeepsState ==
    [][lastOp'.op = "roundtrip" => (messages' = messages /\ messages' = lastOp'.pre)]_vars

\* The round trip has been applied to a conversation of two messages.
C23_Witness ==
    /\ lastOp.op = "roundtrip"
    /\ Len(lastOp.pre) = 2
    /\ messages = lastOp.pre

\* C24: clear_history empties the conversation and leaves the response cache,
\* the rate window and the request queue as they were.
C24_ClearOnlyEmptiesHistory ==
    [][ClearHistory => /\ messages' = <<>>
                       /\ response_cache' = response_cache
                       /\ request_timestamps' = request_timestamps
                       /\ request_queue' = request_queue
      ]_vars

\* The conversation was cleared (a dispatch through send_message is on record
\* in the rate window, and only clear_history removes its messages) while the
\* cache, the window and the queue held entries, and they still do.
C24_Witness ==
    /\ ~test_mode
    /\ messages = <<>>
    /\ request_timestamps # <<>>
    /\ response_cache # <<>>
    /\ request_queue # <<>>
    /\ \A c \in Consumers : pc[c] = "idle"

\* s is a prefix of t
IsPrefix(s, t) ==
    /\ Len(s) <= Len(t)
    /\ SubSeq(t, 1, Len(s)) = s

\* C25: every step of send_message, send_message_stream and process_batch
\* leaves the conversation it found as a prefix of the one it leaves, and a
\* step that removes or replaces messages is one of clear_history or
\* import_history.
C25_AppendOnlyOutsideClearImport ==
    [][/\ (direct' # direct \/ batchVars' # batchVars) => IsPrefix(messages, messages')
       /\ ~IsPrefix(messages, messages')
              => (ClearHistory \/ \E h \in Histories : ImportHistory(h))
      ]_vars

\* A stream on a non-empty conversation ran to exhaustion and a batch
\* dispatched a message through send_message: both appended.
C25_Witness ==
    /\ direct.call = "stream"
    /\ direct.outcome = "exhausted"
    /\ direct.before # <<>>
    /\ Len(messages) > Len(direct.before)
    /\ \E a \in answered[1] : a[4] = "miss"

-----------------------------------------------------------------------------
\* Properties of the ChatUI (checked under SpecPage and SpecUI)

\* C27: on a fixed list of session messages, starting at page 0, the page
\* stays within 0 .. total_pages - 1; _prev_page at page 0 and _next_page at
\* the last page leave it alone, and otherwise each moves it by exactly one.
C27_PageWithinBounds ==
    LET conversations == Len(ui.messages) \div 2
        pages == IF conversations = 0 THEN 1 ELSE ((conversations - 1) \div 5) + 1
    IN  /\ 0 <= ui.current_page
        /\ ui.current_page <= pages - 1
        /\ lastOp.op \in {"next_page", "prev_page"} => ui.current_page = lastOp.res
        /\ lastOp.op = "prev_page" =>
              lastOp.res = (IF lastOp.pre = 0 THEN 0 ELSE lastOp.pre - 1)
        /\ lastOp.op = "next_page" =>
              lastOp.res = (IF lastOp.pre = pages - 1 THEN lastOp.pre ELSE lastOp.pre + 1)

\* _next_page was called on the last of three pages.
C27_Witness ==
    /\ lastOp.op = "next_page"
    /\ lastOp.pre = 2
    /\ ui.current_page = 2
    /\ Len(ui.messages) >= 22

\* C26: after a conversation was saved to a file and is loaded, the session
\* messages and the conversation of the interface both equal the message
\* sequence that was saved.
C26_LoadRestoresConversation ==
    lastOp.op = "load" =>
        /\ ui.messages = ui.files[lastOp.pre].saved
        /\ messages = ui.files[lastOp.pre].saved

\* the handling of a key press ends: the handler returns without having
\* started an input, or the input it awaits is over
KeyboardHandled ==
    \/ lastOp'.op = "keyboard" /\ lastOp'.res = "returned"
    \/ ui.pc = "iterating" /\ ui.via = "keyboard" /\ ui'.pc = "idle"

C29_CtrlLClearsBoth ==
    [][(lastOp'.op = "keyboard" /\ ui.keyboard_trigger = <<"ctrl+l">>)
           => /\ ui'.messages = <<>>
              /\ messages' = <<>>
              /\ ui'.keyboard_trigger = <<>>
      ]_vars

\* 'ctrl+l' was handled while an input was being processed and both the
\* session and the interface held messages.
C29_Witness ==
    /\ lastOp.op = "keyboard"
    /\ lastOp.pre.trigger = "ctrl+l"
    /\ lastOp.pre.is_processing
    /\ lastOp.pre.had
    /\ ui.messages = <<>>
    /\ messages = <<>>

\* C30: when the stream fails while _handle_user_input iterates it, the error
\* is shown and not raised, no assistant message joins the session messages
\* and is_processing is false when the handler ends; it is false after a
\* successful input too, and true exactly while an input is being handled.
C30_InputErrorReported ==
    [][/\ ui.is_processing <=> ui.pc = "iterating"
       /\ ui'.is_processing <=> ui'.pc = "iterating"
       /\ (ui.pc = "iterating" /\ ui'.pc = "idle"
               /\ direct.outcome \in {"ValueError", "APIError"})
              => /\ ui'.error = << direct.outcome >>
                 /\ lastOp'.res = "reported"
                 /\ ui'.messages = ui.messages
                 /\ ~ui'.is_processing
       /\ (ui.pc = "iterating" /\ ui'.pc = "idle" /\ direct.outcome = "exhausted")
              => /\ ~ui'.is_processing
                 /\ ui'.messages = Append(ui.messages, [role |-> "assistant",
                                                        content |-> ui.full_response])
      ]_vars

\* A stream failed after a fragment had been shown: the error is on display,
\* the session ends with the user message, is_processing is false.
C30_Witness ==
    /\ lastOp.op = "input"
    /\ lastOp.res = "reported"
    /\ direct.outcome = "APIError"
    /\ direct.yielded # <<>>
    /\ ui.error = <<"APIError">>
    /\ ~ui.is_processing
    /\ ui.messages # <<>>
    /\ ui.messages[Len(ui.messages)].role = "user"

-----------------------------------------------------------------------------
\* The rate limit of one process_batch consumer (checked under SpecBatchRate)

\* C31: with one process_batch consumer and no direct calls, at most
\* max_requests batch dispatches are started within any window of
\* window_seconds, whatever the batches are and however long a dispatch takes:
\* at every moment the dispatches started in the last request_window seconds,
\* both ends of the window included, number at most requests_per_minute.
C31_BatchDispatchesBounded ==
    Cardinality({i \in DOMAIN dispatchLog : now - dispatchLog[i].t <= request_window})
        <= requests_per_minute

-----------------------------------------------------------------------------
\* Termination of process_batch (checked under SpecLive)

\* process_batch coroutine c has been called and has not yet returned or raised
Running(c) == pc[c] \in {"drain", "drainwait", "loop", "sleep", "await"}

\* C32: with one consumer, a clock that advances and dispatches that return,
\* process_batch always terminates: a call that is under way returns or
\* raises; a coroutine held back by a full rate window leaves its sleep, and
\* when more than request_window seconds have passed since the oldest
\* recorded timestamp the gate lets it through; every drained message is in
\* the end answered, or the batch has failed.
C32_BatchTerminates ==
    /\ \A c \in Consumers : Running(c) ~> pc[c] \in {"returned", "raised"}
    /\ \A c \in Consumers : (pc[c] = "sleep") ~> (pc[c] # "sleep")
    /\ [](\A c \in consumers :
            (AtGate(c) /\ request_timestamps # <<>>
                 /\ now - Head(request_timestamps) > request_window)
                => WithinLimit(PruneOld(request_timestamps, now)))
    /\ \A c \in Consumers : \A i \in 1..batch_size :
           (pc[c] = "loop" /\ idx[c] <= i /\ i <= Len(batch[c]))
               ~> (pc[c] = "raised" \/ \E a \in answered[c] : a[1] = i)

\* The consumer, held back by a window that was full, has slept until the
\* oldest timestamp is more than request_window seconds old: its wait ends.
C32_Witness ==
    \E c \in consumers :
        /\ pc[c] = "sleep"
        /\ now >= wake[c]
        /\ Len(request_timestamps) = requests_per_minute
        /\ now - Head(request_timestamps) > request_window

-----------------------------------------------------------------------------
\* The rate limit of two process_batch coroutines (checked under SpecRace)

\* the timestamps a step removes from the left end of the rate window
DroppedBy(ts, ts2, appended) == SubSeq(ts, 1, Len(ts) + appended - Len(ts2))

\* C33: when two process_batch coroutines interleave at the dispatch await,
\* the dispatches started within any window of window_seconds still number at
\* most max_requests, and no step drops from the rate window a timestamp that
\* is still inside the window.
C33_ConcurrentDispatchesBounded ==
    [][/\ Cardinality({i \in DOMAIN dispatchLog' :
                           now' - dispatchLog'[i].t <= request_window})
              <= requests_per_minute
       /\ LET appended == IF \E c \in consumers : DispatchSucceeds(c) THEN 1 ELSE 0
              dropped == DroppedBy(request_timestamps, request_timestamps', appended)
          IN  \A i \in DOMAIN dropped : now' - dropped[i] > request_window
      ]_vars

-----------------------------------------------------------------------------
\* Overlapping send calls (checked under SpecOverlap)

\* the direct call is in flight / the send_message call of coroutine c is
InFlight == direct.pc \in {"await", "open", "next", "yield"}
Dispatching(c) == pc[c] = "await"

\* the user message with the given text stands in ctx before its end and is
\* not followed by an assistant message
Unanswered(ctx, text) ==
    \E i \in 1..(Len(ctx) - 1) : ctx[i] = User(text) /\ ctx[i + 1].role # "assistant"

\* C34: when two send_message or send_message_stream calls overlap at the
\* network await, the context of each request holds no unanswered user
\* message of the other call, and the assistant message each call appends
\* directly follows the user message it answers.
C34_OverlappingSendsKeepPairs ==
    [][/\ (~InFlight /\ InFlight') =>
              \A c \in consumers :
                  Dispatching(c) => ~Unanswered(direct'.sent[1].messages, Current(c))
       /\ \A c \in consumers :
              (StartsDispatch(c) /\ InFlight) => ~Unanswered(messages', direct.msg)
       /\ (InFlight /\ ~InFlight' /\ direct'.outcome \in {"returned", "exhausted"}) =>
              /\ Len(messages') >= 2
              /\ messages'[Len(messages') - 1] = User(direct.msg)
       /\ \A c \in consumers :
              DispatchSucceeds(c) =>
                  /\ Len(messages') >= 2
                  /\ messages'[Len(messages') - 1] = User(Current(c))
      ]_vars

-----------------------------------------------------------------------------
\* A failed remote call (checked under SpecSend)

\* C35: when the remote call of send_message or send_message_stream fails,
\* the user message appended before the call stays and no assistant message
\* is appended: the history is the one before the call plus that one user
\* message; the next send on that history carries the unanswered user message
\* in its context.
C35_FailedCallKeepsUserMessage ==
    [][/\ (direct.pc # "idle" /\ direct'.pc = "idle" /\ direct'.outcome = "APIError")
              => messages' = Append(direct.before, User(direct.msg))
       /\ (/\ direct.pc = "idle"
           /\ direct.outcome = "APIError"
           /\ messages = Append(direct.before, User(direct.msg))
           /\ direct'.pc # "idle")
              => direct'.sent[1].messages =
                     direct.before \o << User(direct.msg), User(direct'.msg) >>
      ]_vars

\* A stream on a history that held a message has failed after a fragment was
\* handed out: the history is the one before the call plus the user message.
C35_Witness ==
    /\ direct.pc = "idle"
    /\ direct.outcome = "APIError"
    /\ direct.call = "stream"
    /\ direct.yielded # <<>>
    /\ direct.before # <<>>
    /\ messages = Append(direct.before, User(direct.msg))

-----------------------------------------------------------------------------
\* The cache of process_batch and the history (checked under SpecCtx)

\* coroutine c leaves the place of the for loop it stands at
Moves(c) == << pc[c], idx[c] >>' # << pc[c], idx[c] >>

\* C36: process_batch looks the cache up and fills it under the empty
\* context, so a hit depends on the text of the message alone: a dispatch
\* that returns stores its response under the key of the empty context and
\* the message, and a message that stands in the cache under that key is,
\* whatever the history has become since, answered with the cached response
\* and without a dispatch.
C36_HitDependsOnTextOnly ==
    [][\A c \in consumers :
          /\ DispatchSucceeds(c) =>
                 \E r \in Completions :
                     /\ response_cache' = update_cache(response_cache, Current(c), r, <<>>)
                     /\ responses'[c] = Append(responses[c], r)
          /\ (/\ pc[c] = "loop"
              /\ generate_cache_key(Current(c), <<>>) \in DictKeys(response_cache)
              /\ Moves(c))
                 => /\ responses'[c] =
                           Append(responses[c],
                                  DictGet(response_cache,
                                          generate_cache_key(Current(c), <<>>))[1])
                    /\ messages' = messages
                    /\ ~StartsDispatch(c)
      ]_vars

-----------------------------------------------------------------------------
\* A cached empty response (checked under Spec)

\* C37: process_batch treats a message as a cache hit whenever the cache holds
\* an entry for it, also when the cached response is the empty string: for
\* such a message no dispatch is made, the rate window is unchanged and the
\* empty response is the one returned.
C37_EmptyCachedResponseIsHit ==
    [][\A c \in consumers :
          (/\ pc[c] = "loop"
           /\ get_cached_response(response_cache, Current(c), <<>>) = Some(<<>>)
           /\ Moves(c))
              => /\ responses'[c] = Append(responses[c], <<>>)
                 /\ request_timestamps' = request_timestamps
                 /\ response_cache' = response_cache
                 /\ ~StartsDispatch(c)
                 /\ ~TestDispatch(c)
                 /\ pc'[c] \notin {"sleep", "raised"}
      ]_vars

-----------------------------------------------------------------------------
\* A put for a key the cache holds (checked under SpecCache)

\* C38: a put (_update_cache) for a key that is present in a full cache only
\* replaces the response of that key: the cache keeps its size, no other
\* entry is evicted and every other key is retrieved with the response it had.
C38_PutPresentKeyOnlyReplaces ==
    [][(/\ lastOp'.op = "put"
        /\ lastOp'.pre.had
        /\ lastOp'.pre.len = cache_size)
          => LET key == generate_cache_key(lastOp'.msg, lastOp'.ctx)
             IN  /\ Len(response_cache') = Len(response_cache)
                 /\ DictGet(response_cache', key) = Some(lastOp'.resp)
                 /\ \A k \in DictKeys(response_cache) \ {key} :
                        DictGet(response_cache', k) = DictGet(response_cache, k)
      ]_vars

-----------------------------------------------------------------------------
\* A batch that fails midway (checked under SpecCtx; it holds under Spec too)

\* C39: when a dispatch fails, the messages drained into the batch that were
\* not yet answered (the failing one and those after it) are not put back
\* into the request queue and get no response, and what the batch has done so
\* far stays: the step that raises, and the step in which the caller receives
\* the error, leave the queue, the cache, the rate window and the history as
\* they are, and add no response.  (In test mode the failure, an IndexError of
\* message.split()[-1], comes in the step of the rate gate, whose
\* can_make_request drops the timestamps that are older than the window.)
C39_FailedBatchUndoesNothing ==
    [][\A c \in consumers :
          (Raises(c) \/ (pc[c] = "raised" /\ pc'[c] # "raised"))
              => /\ request_queue' = request_queue
                 /\ response_cache' = response_cache
                 /\ request_timestamps' =
                        IF pc[c] \in {"loop", "sleep"}
                        THEN PruneOld(request_timestamps, now)
                        ELSE request_timestamps
                 /\ messages' = messages
                 /\ Raises(c) => /\ responses'[c] = responses[c]
                                 /\ answered'[c] = answered[c]
                                 /\ \A a \in answered[c] : a[1] < idx[c]
      ]_vars

\* The second dispatch of a batch of two has failed: the first message was
\* answered, cached and recorded, the user message of the second stands in
\* the history, and the queue holds neither message.
C39_Witness ==
    \E c \in consumers :
        /\ pc[c] = "raised"
        /\ ~test_mode
        /\ Len(batch[c]) = 2
        /\ idx[c] = 2
        /\ Len(responses[c]) = 1
        /\ \E a \in answered[c] : a[1] = 1 /\ a[4] = "miss"
        /\ generate_cache_key(batch[c][1], <<>>) \in DictKeys(response_cache)
        /\ request_timestamps # <<>>
        /\ messages # <<>>
        /\ messages[Len(messages)] = User(batch[c][2])
        /\ request_queue = <<>>

-----------------------------------------------------------------------------
\* The session messages and the conversation (checked under SpecSession)

\* C40: starting with both empty, whenever no input is being handled (after
\* any sequence of completed _handle_user_input calls, successful or failed
\* with a validation or a remote error, and of ctrl+l clears) the session
\* message list of the UI equals the interface's conversation.
C40_SessionEqualsConversation ==
    ui.pc = "idle" => ui.messages = messages

=============================================================================
